---- MODULE Spec2Model ----
(***************************************************************************)
(* SuperCouch: the query-server protocol engine (src/src/supercouch.ts),   *)
(* the Redis sorted-set service (lib/supercouch.sset.redis) and the        *)
(* sorted-set contract (lib/supercouch.sset).                              *)
(*                                                                         *)
(* Strings that the code formats, encodes or compares byte-wise are        *)
(* modelled as sequences of one-character strings.                         *)
(***************************************************************************)
EXTENDS Integers, Sequences, FiniteSets, TLC

VARIABLES
    redis,        \* the backend: Redis key -> sorted set (set of [member, score])
    txs,          \* the multi.exec() transactions in flight
    calls,        \* caller -> its latest SSetRedis.process() call and Promise.all state
    submitted,    \* history: the operations whose transaction committed
    batch,        \* service client: the argument of its next process() call
    permOps,      \* the collection of operations applied one at a time
    permA,        \* backend contents after applying permOps in order A
    permB,        \* backend contents after applying permOps in order B
    permI,        \* how many operations each order has applied so far
    config,       \* engine configuration (parseArguments)
    mapFunctions, \* engine: the registered map functions, in order
    emits,        \* engine: the process-wide scratch emission buffer
    handlers,     \* engine: one record per 'line' event handled so far
    microQ,       \* engine: continuations ready to run (microtask queue), FIFO
    chunk,        \* engine: which event source the current macrotask belongs to
    stdout,       \* engine: the response lines written so far
    crashed,      \* engine: an unhandled promise rejection ended the process
    viewCall,     \* interceptor: one call of the extended db.view and what it did
    rangeCall,    \* service: one rangeByIndex / rangeByScore call and what it did
    keyCall       \* service: two sorted sets addressed through SSetRedis.key

vars == <<redis, txs, calls, submitted, batch, permOps, permA, permB, permI,
          config, mapFunctions, emits, handlers, microQ, chunk, stdout, crashed,
          viewCall, rangeCall, keyCall>>

svcVars  == <<redis, txs, calls, submitted, batch>>
permVars == <<permOps, permA, permB, permI>>
engVars  == <<config, mapFunctions, emits, handlers, microQ, chunk, stdout, crashed>>
viewVars == <<viewCall, rangeCall, keyCall>>

(***************************************************************************)
(* Bounds                                                                  *)
(***************************************************************************)
MaxScore   == 2    \* scores range over 1..MaxScore
MaxOps     == 2    \* operations per process() batch in the service specifications
MaxCalls   == 2    \* process() calls a service client makes
MaxPerm    == 3    \* operations in a collection applied in two orders
MaxLines   == 3    \* request lines the host sends to the engine
MaxMapLines == 2   \* request lines when map functions emit every shape of key and value

Scores == 1..MaxScore

(***************************************************************************)
(* Characters and byte order                                               *)
(***************************************************************************)
CharCode(c) ==
    CASE c = "\"" -> 34  [] c = "%" -> 37  [] c = "/" -> 47  [] c = "1" -> 49
      [] c = "2" -> 50   [] c = "3" -> 51  [] c = "5" -> 53  [] c = "7" -> 55
      [] c = ":" -> 58   [] c = "A" -> 65  [] c = "B" -> 66  [] c = "C" -> 67
      [] c = "D" -> 68   [] c = "F" -> 70  [] c = "\\" -> 92 [] c = "a" -> 97
      [] c = "b" -> 98   [] c = "k" -> 107 [] c = "x" -> 120 [] c = "y" -> 121
      [] c = "{" -> 123  [] c = "}" -> 125

\* byte-wise lexicographic order of two encoded strings (Redis member order)
RECURSIVE LexLess(_, _)
LexLess(s, t) ==
    IF t = <<>> THEN FALSE
    ELSE IF s = <<>> THEN TRUE
    ELSE IF CharCode(Head(s)) # CharCode(Head(t))
         THEN CharCode(Head(s)) < CharCode(Head(t))
         ELSE LexLess(Tail(s), Tail(t))

RECURSIVE Concat(_)
Concat(ss) == IF ss = <<>> THEN <<>> ELSE Head(ss) \o Concat(Tail(ss))

RECURSIVE Join(_, _)
Join(ss, sep) ==
    IF ss = <<>> THEN <<>>
    ELSE IF Len(ss) = 1 THEN Head(ss)
    ELSE Head(ss) \o sep \o Join(Tail(ss), sep)

\* the characters encodeURIComponent leaves alone, among those of the model
Unreserved == {"1", "2", "3", "5", "7", "A", "B", "C", "D", "F", "a", "b", "k", "x", "y"}

HexOf(c) ==
    CASE c = "\"" -> <<"2", "2">> [] c = "%" -> <<"2", "5">> [] c = "/" -> <<"2", "F">>
      [] c = ":" -> <<"3", "A">>  [] c = "\\" -> <<"5", "C">> [] c = "{" -> <<"7", "B">>
      [] c = "}" -> <<"7", "D">>

encodeURIComponent(s) ==
    Concat([i \in 1..Len(s) |->
              IF s[i] \in Unreserved THEN <<s[i]>> ELSE <<"%">> \o HexOf(s[i])])

\* JSON.stringify of a string value: quotes around, quote and backslash escaped
JSONstringify(v) ==
    <<"\"">> \o
    Concat([i \in 1..Len(v) |->
              IF v[i] \in {"\"", "\\"} THEN <<"\\", v[i]>> ELSE <<v[i]>>])
    \o <<"\"">>

\* SSetRedis.key
SSetRedisKey(db, id) ==
    <<"{", "S", "S", "E", "T", ":">> \o db \o <<"}", "/">>
      \o Join([i \in 1..Len(id) |-> encodeURIComponent(id[i])], <<":">>)

(***************************************************************************)
(* Redis sorted sets: a set of [member, score] with one entry per member   *)
(***************************************************************************)
ZLess(e, f) ==
    \/ e.score < f.score
    \/ e.score = f.score /\ LexLess(e.member, f.member)

\* the entries in rank order: ascending score, ties by member bytes
RECURSIVE ZSorted(_)
ZSorted(z) ==
    IF z = {} THEN <<>>
    ELSE LET lo == CHOOSE e \in z : \A f \in z \ {e} : ZLess(e, f)
         IN  <<lo>> \o ZSorted(z \ {lo})

\* ZADD key GT score member: a new member is added, an existing one is
\* updated only when the new score is greater than the stored one
ZAddLT(z, score, member) ==
    IF \E e \in z : e.member = member
    THEN LET old == CHOOSE e \in z : e.member = member
         IN  IF score < old.score
             THEN (z \ {old}) \cup {[member |-> member, score |-> score]}
             ELSE z
    ELSE z \cup {[member |-> member, score |-> score]}

ZAddGT(z, score, member) ==
    IF \E e \in z : e.member = member
    THEN LET old == CHOOSE e \in z : e.member = member
         IN  IF score > old.score
             THEN (z \ {old}) \cup {[member |-> member, score |-> score]}
             ELSE z
    ELSE z \cup {[member |-> member, score |-> score]}

\* ZREMRANGEBYRANK key start stop (negative ranks count from the end)
ZRemRangeByRankHead(z, start, stop) ==
    LET n  == Cardinality(z)
        s  == ZSorted(z)
    IN  IF n = 0 THEN z ELSE {s[i] : i \in 1..1}

ZRemRangeByRank(z, start, stop) ==
    LET n  == Cardinality(z)
        s0 == IF start < 0 THEN n + start ELSE start
        e0 == IF stop < 0 THEN n + stop ELSE stop
        s1 == IF s0 < 0 THEN 0 ELSE s0
        e1 == IF e0 >= n THEN n - 1 ELSE e0
        s  == ZSorted(z)
    IN  IF s1 > e1 \/ s1 >= n THEN z
        ELSE {s[i] : i \in {j \in 1..n : j - 1 < s1 \/ j - 1 > e1}}

\* the sorted set stored under a key (a missing key is the empty set)
ZGet(r, key) == IF key \in DOMAIN r THEN r[key] ELSE {}

ZPut(r, key, z) ==
    IF z = {} THEN [k \in DOMAIN r \ {key} |-> r[k]]
    ELSE [k \in DOMAIN r \cup {key} |-> IF k = key THEN z ELSE r[k]]

\* one queued command of a MULTI
ApplyCmd(r, c) ==
    IF c.cmd = "zAdd"
    THEN ZPut(r, c.key, ZAddGT(ZGet(r, c.key), c.score, c.member))
    ELSE ZPut(r, c.key, ZRemRangeByRank(ZGet(r, c.key), c.start, c.stop))

\* EXEC: the queued commands take effect in order, as one step
RECURSIVE ApplyCmds(_, _)
ApplyCmds(r, cmds) ==
    IF cmds = <<>> THEN r ELSE ApplyCmds(ApplyCmd(r, Head(cmds)), Tail(cmds))

(***************************************************************************)
(* SSetRedis.process                                                       *)
(***************************************************************************)
\* the databases of a batch, in order of first appearance (Object.keys(groups))
RECURSIVE GroupKeys(_)
GroupKeys(ops) ==
    IF ops = <<>> THEN <<>>
    ELSE LET rest == GroupKeys(SubSeq(ops, 1, Len(ops) - 1))
             d    == ops[Len(ops)].db
         IN  IF \E i \in 1..Len(rest) : rest[i] = d THEN rest ELSE Append(rest, d)

\* groups[db]: the operations of the batch addressed to one database
GroupOf(ops, db) == SelectSeq(ops, LAMBDA op : op.db = db)

\* the first loop of process(): an operation without id-path or keep throws
InvalidOp(op) == op.id = <<>> \/ op.keep = ""

\* the commands one operation queues on the MULTI
OpCmds(op) ==
    LET key == SSetRedisKey(op.db, op.id)
        add == [cmd |-> "zAdd", key |-> key, score |-> op.score,
                member |-> JSONstringify(op.value), start |-> 0, stop |-> 0]
        rem == [cmd |-> "zRemRangeByRank", key |-> key, score |-> 0,
                member |-> <<>>, start |-> 0, stop |-> 0 - 2]
    IN  IF op.keep = "LAST_VALUE" THEN <<add, rem>> ELSE <<add>>

\* the switch on op.keep: anything but the two keep options throws
UnsupportedKeep(op) == op.keep \notin {"ALL_VALUES", "LAST_VALUE"}

\* the body of the map() callback for one database: it walks `ops`, the whole
\* batch, and queues the commands of every operation it meets
\* (MultiOpsOwn: a callback that walks groups[db] instead)
MultiOpsOwn(ops, db) == GroupOf(ops, db)

MultiOps(ops, db) == ops

MultiThrows(ops, db) == \E i \in 1..Len(MultiOps(ops, db)) : UnsupportedKeep(MultiOps(ops, db)[i])

MultiCmds(ops, db) ==
    Concat([i \in 1..Len(MultiOps(ops, db)) |-> OpCmds(MultiOps(ops, db)[i])])

\* process(ops): what the call throws and which transactions it has sent.
\* A throw in the callback of one database leaves the exec() of the databases
\* before it already sent.
SSetRedisProcess(ops) ==
    LET dbs     == GroupKeys(ops)
        invalid == \E i \in 1..Len(ops) : InvalidOp(ops[i])
        bad     == {i \in 1..Len(dbs) : MultiThrows(ops, dbs[i])}
        nSent   == IF invalid THEN 0
                   ELSE IF bad = {} THEN Len(dbs)
                   ELSE (CHOOSE i \in bad : \A j \in bad : i <= j) - 1
    IN  [threw  |-> invalid \/ bad # {},
         issued |-> [i \in 1..nSent |->
                       [db |-> dbs[i], cmds |-> MultiCmds(ops, dbs[i])]]]

(***************************************************************************)
(* The service on its own: a client that calls process() directly          *)
(***************************************************************************)
NoRedis == [k \in {} |-> {}]

\* a caller's latest process() call: Promise.all over its exec() promises
NoCall == [n |-> 0, threw |-> FALSE, issued |-> 0, left |-> 0, failed |-> FALSE]

NewCall(old, ops) ==
    LET r == SSetRedisProcess(ops)
    IN  [n |-> old.n + 1, threw |-> r.threw, issued |-> Len(r.issued),
         left |-> Len(r.issued), failed |-> FALSE]

\* the transactions a call puts in flight
NewTxs(caller, n, ops) ==
    LET r == SSetRedisProcess(ops)
    IN  {[caller |-> caller, n |-> n, ops |-> ops, db |-> r.issued[i].db,
          cmds |-> r.issued[i].cmds] : i \in 1..Len(r.issued)}

\* the promise returned by process() has settled: it threw, one exec()
\* rejected, or every exec() resolved
CallRejected(c) == c.threw \/ c.failed

\* (CallResolvedEarly: a promise that resolves without waiting for every exec())
CallResolvedEarly(c) == ~c.threw /\ ~c.failed

CallResolved(c) == ~c.threw /\ ~c.failed /\ c.left = 0
CallSettled(c)  == CallRejected(c) \/ CallResolved(c)

\* EXEC succeeds: the whole MULTI takes effect
Committed(t) ==
    /\ redis' = ApplyCmds(redis, t.cmds)
    /\ txs' = txs \ {t}
    /\ calls' = [calls EXCEPT ![t.caller] =
                   IF @.n = t.n THEN [@ EXCEPT !.left = @ - 1] ELSE @]

\* EXEC fails: nothing of the MULTI takes effect
Failed(t) ==
    /\ redis' = redis
    /\ txs' = txs \ {t}
    /\ calls' = [calls EXCEPT ![t.caller] =
                   IF @.n = t.n THEN [@ EXCEPT !.left = @ - 1, !.failed = TRUE] ELSE @]

Client == "client"

DBs == {<<"A">>, <<"B">>}

\* a client that keeps to one sorted set and one keep option
SetOps(keep) ==
    [db : {<<"A">>}, id : {<<<<"x">>>>}, keep : {keep},
     score : Scores, value : {<<"a">>, <<"b">>}]

\* a client that writes to two databases and also sends malformed operations
SvcOps ==
    [db : DBs, id : {<<<<"x">>>>}, keep : {"ALL_VALUES", "LAST_VALUE"},
     score : Scores, value : {<<"a">>}]
    \cup {[db |-> <<"A">>, id |-> <<<<"x">>>>, keep |-> "FOO", score |-> 1, value |-> <<"a">>],
          [db |-> <<"B">>, id |-> <<<<"x">>>>, keep |-> "", score |-> 1, value |-> <<"a">>],
          [db |-> <<"A">>, id |-> <<>>, keep |-> "ALL_VALUES", score |-> 1, value |-> <<"a">>]}

Batches(S, n) == UNION {[1..k -> S] : k \in 0..n}

InitSvc ==
    /\ redis = NoRedis
    /\ txs = {}
    /\ calls = (Client :> NoCall)
    /\ submitted = {}
    /\ batch = <<>>

InitIdlePerm ==
    /\ permOps = <<>> /\ permA = NoRedis /\ permB = NoRedis /\ permI = <<0, 0>>

\* no db.view call is made
NoViewCall == [pc |-> "none"]

\* no rangeByIndex / rangeByScore call is made
NoRangeCall == [pc |-> "none"]

\* no pair of sorted sets is addressed
NoKeyCall == [pc |-> "none"]

InitIdleView == viewCall = NoViewCall /\ rangeCall = NoRangeCall /\ keyCall = NoKeyCall

InitIdleEngine ==
    /\ config = [emitSSet |-> FALSE]
    /\ mapFunctions = <<>> /\ emits = <<>> /\ handlers = <<>> /\ microQ = <<>>
    /\ chunk = "closed" /\ stdout = <<>> /\ crashed = FALSE

\* the client puts one more operation in the batch of its next call
SetAddOp ==
    /\ txs = {}
    /\ calls[Client].n < MaxCalls
    /\ Len(batch) < MaxOps
    /\ \E keep \in {"ALL_VALUES", "LAST_VALUE"} :
         /\ \A s \in submitted : s.keep = keep
         /\ \A i \in 1..Len(batch) : batch[i].keep = keep
         /\ \E op \in SetOps(keep) : batch' = Append(batch, op)
    /\ UNCHANGED <<redis, txs, calls, submitted, permVars, viewVars, engVars>>

SvcAddOp ==
    /\ calls[Client].n = 0
    /\ Len(batch) < MaxOps
    /\ \E op \in SvcOps : batch' = Append(batch, op)
    /\ UNCHANGED <<redis, txs, calls, submitted, permVars, viewVars, engVars>>

\* the client calls process(batch); it awaits one call before the next
SetProcess ==
    /\ txs = {}
    /\ calls[Client].n < MaxCalls
    /\ calls' = [calls EXCEPT ![Client] = NewCall(@, batch)]
    /\ txs' = NewTxs(Client, calls[Client].n + 1, batch)
    /\ batch' = <<>>
    /\ UNCHANGED <<redis, submitted, permVars, viewVars, engVars>>

SvcProcess ==
    /\ calls[Client].n = 0
    /\ calls' = [calls EXCEPT ![Client] = NewCall(@, batch)]
    /\ txs' = NewTxs(Client, calls[Client].n + 1, batch)
    /\ batch' = <<>>
    /\ UNCHANGED <<redis, submitted, permVars, viewVars, engVars>>

SvcTxCommit ==
    \E t \in txs :
        /\ Committed(t)
        /\ submitted' = submitted \cup {t.ops[i] : i \in {j \in 1..Len(t.ops) : t.ops[j].db = t.db}}
        /\ UNCHANGED <<batch, permVars, viewVars, engVars>>

SvcTxFail ==
    \E t \in txs :
        /\ Failed(t)
        /\ UNCHANGED <<submitted, batch, permVars, viewVars, engVars>>

InitSet == InitSvc /\ InitIdlePerm /\ InitIdleEngine /\ InitIdleView
NextSet == SetAddOp \/ SetProcess \/ SvcTxCommit \/ SvcTxFail
SpecSet == InitSet /\ [][NextSet]_vars

NextSvc == SvcAddOp \/ SvcProcess \/ SvcTxCommit \/ SvcTxFail
SpecSvc == InitSet /\ [][NextSvc]_vars

(***************************************************************************)
(* Claims about the sorted-set service                                     *)
(***************************************************************************)
TheKey == SSetRedisKey(<<"A">>, <<<<"x">>>>)

MaxOf(S) == CHOOSE m \in S : \A x \in S : x <= m

\* C1: under ALL_VALUES operations only, after every committed batch the set
\* holds exactly one entry per distinct encoded value submitted so far, and
\* the score of that entry is the largest score submitted for that value.
C1_AllValuesKeepsMax ==
    (\A s \in submitted : s.keep = "ALL_VALUES") =>
        ZGet(redis, TheKey) =
            {[member |-> JSONstringify(s.value),
              score  |-> MaxOf({u.score : u \in {w \in submitted : w.value = s.value}})]
               : s \in submitted}

C1_Witness ==
    /\ submitted # {} /\ \A s \in submitted : s.keep = "ALL_VALUES"
    /\ \E s, u \in submitted : s.value = u.value /\ s.score < u.score
    /\ \E s, u \in submitted : s.value # u.value
    /\ calls[Client].n = MaxCalls /\ txs = {} /\ CallResolved(calls[Client])

\* C2: under LAST_VALUE operations only, after every committed batch the set
\* holds at most one entry, whose score is the largest score submitted so far.
C2_LastValueKeepsMax ==
    (submitted # {} /\ \A s \in submitted : s.keep = "LAST_VALUE") =>
        /\ Cardinality(ZGet(redis, TheKey)) = 1
        /\ \A e \in ZGet(redis, TheKey) : e.score = MaxOf({s.score : s \in submitted})

C2_Witness ==
    /\ submitted # {} /\ \A s \in submitted : s.keep = "LAST_VALUE"
    /\ \E s, u \in submitted : s.value # u.value /\ s.score < u.score
    /\ \E s, u \in submitted : s.value # u.value /\ s.score = u.score
    /\ calls[Client].n = MaxCalls /\ txs = {} /\ CallResolved(calls[Client])

\* C8: process(ops) issues one transaction per distinct database of ops, and
\* the transaction for a database holds exactly the operations of ops
\* addressed to that database, each once and in submitted order, and no
\* operation addressed to another database.
C8_OneTransactionPerDatabase ==
    \A t \in txs :
        LET mine == {u \in txs : u.caller = t.caller /\ u.n = t.n}
        IN  Cardinality(mine) = calls[t.caller].issued =>
              /\ \A i \in 1..Len(t.ops) :
                    Cardinality({u \in mine : u.db = t.ops[i].db}) = 1
              /\ t.cmds = Concat([k \in 1..Len(GroupOf(t.ops, t.db)) |->
                                    OpCmds(GroupOf(t.ops, t.db)[k])])

(***************************************************************************)
(* One collection of operations applied one at a time, in two orders       *)
(***************************************************************************)
PermOps ==
    [db : {<<"A">>}, id : {<<<<"x">>>>}, keep : {"ALL_VALUES", "LAST_VALUE"},
     score : Scores, value : {<<"a">>, <<"b">>}]

Orderings(n) == {p \in [1..n -> 1..n] : \A i, j \in 1..n : p[i] = p[j] => i = j}

\* process([op]) followed by the commit of its transaction
ApplyOne(r, op) ==
    LET c == SSetRedisProcess(<<op>>)
    IN  IF c.issued = <<>> THEN r ELSE ApplyCmds(r, c.issued[1].cmds)

InitPerm ==
    /\ \E ops \in Batches(PermOps, MaxPerm) :
         \E p \in Orderings(Len(ops)) :
            permOps = [a |-> ops, b |-> [i \in 1..Len(ops) |-> ops[p[i]]]]
    /\ permA = NoRedis /\ permB = NoRedis /\ permI = <<0, 0>>
    /\ InitSvc /\ InitIdleEngine /\ InitIdleView

PermStepA ==
    /\ permI[1] < Len(permOps.a)
    /\ permA' = ApplyOne(permA, permOps.a[permI[1] + 1])
    /\ permI' = <<permI[1] + 1, permI[2]>>
    /\ UNCHANGED <<permOps, permB, svcVars, engVars, viewVars>>

PermStepB ==
    /\ permI[2] < Len(permOps.b)
    /\ permB' = ApplyOne(permB, permOps.b[permI[2] + 1])
    /\ permI' = <<permI[1], permI[2] + 1>>
    /\ UNCHANGED <<permOps, permA, svcVars, engVars, viewVars>>

NextPerm == PermStepA \/ PermStepB
SpecPerm == InitPerm /\ [][NextPerm]_vars

PermDone == permI[1] = Len(permOps.a) /\ permI[2] = Len(permOps.b)

\* C4: a finite collection of operations, of either keep option, applied one
\* at a time gives the same final contents of every sorted set in every order.
C4_AnyOrderSameResult == PermDone => permA = permB

(***************************************************************************)
(* The query-server engine: emissions                                      *)
(***************************************************************************)
\* the marker, taken as one symbol
SSET_KEY == <<"$SSET">>

\* what a map function may pass to emit(key, value)
\*   key:   null, a string, a number (by its decimal digits), an array of
\*          strings, or something else without a length (a boolean)
\*   value: null, a primitive, an object {score, value, keep} whose fields
\*          may be missing, or an object JSON.stringify cannot serialise
KeyNull       == [t |-> "null", v |-> <<>>]
KeyStr(str)   == [t |-> "str", v |-> <<str>>]
KeyNum(digits) == [t |-> "num", v |-> <<digits>>]
KeyArr(elems) == [t |-> "arr", v |-> elems]
KeyOther      == [t |-> "other", v |-> <<>>]

NoScore == 0 - 1
ValNull   == [t |-> "null", score |-> NoScore, value |-> <<>>, keep |-> ""]
ValPrim   == [t |-> "prim", score |-> NoScore, value |-> <<>>, keep |-> ""]
ValCyclic == [t |-> "cyclic", score |-> NoScore, value |-> <<>>, keep |-> ""]
ValObj(score, value, keep) == [t |-> "obj", score |-> score, value |-> value, keep |-> keep]

\* global.emit: what one call appends to the scratch buffer
GlobalEmitAlways(key, value) ==
    IF key.t = "null" THEN <<[null |-> TRUE, elems |-> <<>>, value |-> value]>>
    ELSE <<[null |-> FALSE, elems |-> key.v, value |-> value]>>

GlobalEmit(key, value) ==
    IF key.t = "null" THEN <<[null |-> TRUE, elems |-> <<>>, value |-> value]>>
    ELSE IF key.t \in {"str", "num"} THEN <<[null |-> FALSE, elems |-> key.v, value |-> value]>>
    ELSE IF key.t = "arr" /\ Len(key.v) > 0
         THEN <<[null |-> FALSE, elems |-> key.v, value |-> value]>>
    ELSE <<>>

\* the emit() calls of one run of a map function, up to the point it throws
EmitAll(callsOf) ==
    Concat([i \in 1..Len(callsOf) |-> GlobalEmit(callsOf[i].key, callsOf[i].value)])

\* mapDoc, the forEach over the buffer: kv is marked for the sorted-set service
Marked(kv) ==
    /\ ~kv.null /\ Len(kv.elems) >= 3
    /\ kv.elems[1] = SSET_KEY[1]
    /\ kv.value.t \in {"null", "obj", "cyclic"}

\* destructuring {value, score, keep} of null throws a TypeError
DestructureThrows(kv) == Marked(kv) /\ kv.value.t = "null"

\* keep && db && id && typeof score === 'number'
Diverted(kv) ==
    /\ Marked(kv) /\ kv.value.t = "obj"
    /\ kv.value.keep # "" /\ kv.elems[2] # <<>> /\ kv.value.score # NoScore

OpOf(kv) ==
    [db |-> kv.elems[2], id |-> SubSeq(kv.elems, 3, Len(kv.elems)),
     keep |-> kv.value.keep, score |-> kv.value.score, value |-> kv.value.value]

ShouldEmitAlways(kv, emitSSet) == TRUE

ShouldEmit(kv, emitSSet) == IF Diverted(kv) THEN emitSSet ELSE TRUE

\* the synchronous part of mapDoc(map, doc): the run of the map function
\* `beh` appends to the buffer `buf`; unless it throws, the buffer is split
\* into view rows and operations and emptied, and process(ops) is called
\* when there are operations
MapDocSync(buf, beh, emitSSet) ==
    LET all    == buf \o EmitAll(beh.emits)
        idx    == {i \in 1..Len(all) : DestructureThrows(all[i])}
        ret    == SelectSeq(all, LAMBDA kv : ShouldEmit(kv, emitSSet))
        divs   == SelectSeq(all, Diverted)
        ops    == [i \in 1..Len(divs) |-> OpOf(divs[i])]
        called == ops # <<>>
        r      == SSetRedisProcess(ops)
    IN  IF beh.throws # "none"
        THEN [emits |-> all, st |-> "err", thrown |-> beh.throws, list |-> <<>>,
              ops |-> <<>>, called |-> FALSE]
        ELSE IF idx # {}
        THEN [emits |-> all, st |-> "err", thrown |-> "Error", list |-> <<>>,
              ops |-> <<>>, called |-> FALSE]
        ELSE IF ~called
        THEN [emits |-> <<>>, st |-> "ok", thrown |-> "none", list |-> ret,
              ops |-> ops, called |-> FALSE]
        ELSE IF r.threw
        THEN [emits |-> <<>>, st |-> "err", thrown |-> "Error", list |-> ret,
              ops |-> ops, called |-> TRUE]
        ELSE [emits |-> <<>>, st |-> "io", thrown |-> "none", list |-> ret,
              ops |-> ops, called |-> TRUE]

\* the catch block of processQuery reads err.message and evaluates
\* 'message' in err: the first throws on null and undefined, the second on
\* any other primitive
CatchThrows(thrown) == thrown \in {"null", "prim"}

(***************************************************************************)
(* The query-server engine: requests, handlers and responses               *)
(***************************************************************************)
\* one source text: the doc, not the source, decides how a run behaves
Sources == {"f"}

\* response bodies
RTrue         == [t |-> "true", name |-> "", lists |-> <<>>, nulls |-> 0]
RError(name)  == [t |-> "error", name |-> name, lists |-> <<>>, nulls |-> 0]
RRows(lists)  == [t |-> "rows", name |-> "", lists |-> lists, nulls |-> 0]
RReduce(n)    == [t |-> "reduce", name |-> "", lists |-> <<>>, nulls |-> n]

\* the line ["log", str]
RLog(str)     == [t |-> "log", name |-> str, lists |-> <<>>, nulls |-> 0]

\* what the promise of processQuery settles with
NoResult      == [thrown |-> FALSE, body |-> RTrue]
Resolves(b)   == [thrown |-> FALSE, body |-> b]
Rejects       == [thrown |-> TRUE, body |-> RTrue]

NoMapDoc == [st |-> "none", thrown |-> "none", list |-> <<>>]

\* JSON.stringify throws on a value it cannot serialise
Serializable(body) ==
    \A i \in 1..Len(body.lists) : \A j \in 1..Len(body.lists[i]) :
        body.lists[i][j].value.t # "cyclic"

\* respond(outputObj): one line on standard output
Respond(h, body) ==
    stdout' = Append(stdout, [req |-> h,
                              body |-> IF Serializable(body) THEN body
                                       ELSE RError("output_error")])

\* global.log(str): what the call writes on standard output. debugLog sends
\* the message to the log sinks (syslog, log file, standard error); the
\* console.log of the ["log", str] line is commented out
globalLog(h, str) == <<>>

\* the log() calls of one run of a map function, in order
LogCalls(h, logs) == Concat([i \in 1..Len(logs) |-> globalLog(h, logs[i])])

\* the runs of map functions the model draws from: the emit() calls made, the
\* log() calls made, and how the run ends ("none": returns; otherwise the
\* kind of value thrown)
RowK  == [key |-> KeyStr("k"), value |-> ValPrim]
SSet(db, keep, score, value) ==
    [key |-> KeyArr(<<SSET_KEY[1], <<db>>, <<"x">>>>), value |-> ValObj(score, <<value>>, keep)]

Behaviours ==
    { [emits |-> <<>>, logs |-> <<>>, throws |-> "none"],
      [emits |-> <<RowK, SSet("A", "ALL_VALUES", 1, "a")>>, logs |-> <<"m">>,
       throws |-> "none"],
      [emits |-> <<SSet("A", "LAST_VALUE", 2, "b"), SSet("B", "ALL_VALUES", 1, "a")>>,
       logs |-> <<>>, throws |-> "none"],
      [emits |-> <<SSet("B", "ALL_VALUES", 1, "a"), SSet("A", "FOO", 1, "a")>>,
       logs |-> <<>>, throws |-> "none"],
      [emits |-> <<RowK>>, logs |-> <<"m", "n">>, throws |-> "Error"],
      [emits |-> <<>>, logs |-> <<>>, throws |-> "prim"] }

NewHandler(cmd) ==
    [cmd |-> cmd, pc |-> "done", fns |-> <<>>, live |-> FALSE, i |-> 0, ret |-> <<>>,
     md |-> NoMapDoc, result |-> NoResult, runs |-> <<>>]

\* a 'line' event is delivered when no continuation is waiting, or right
\* after another line of the same chunk of input
LineMayArrive ==
    /\ ~crashed
    /\ Len(handlers) < MaxLines
    /\ microQ = <<>> \/ chunk = "line"

\* lineReceived suspends at `await processQuery(...)`, whose promise has
\* already settled with `res`
AwaitsSettled(cmd, res) ==
    /\ handlers' = Append(handlers, [NewHandler(cmd) EXCEPT !.pc = "awaitProcessQuery",
                                                            !.result = res])
    /\ microQ' = Append(microQ, Len(handlers) + 1)
    /\ calls' = Append(calls, NoCall)
    /\ chunk' = "line"

\* a blank line, or JSON that has no length (a number, an object, []):
\* lineReceived returns without writing anything
LineDropped ==
    /\ LineMayArrive
    /\ \E cmd \in {"blank", "nolength"} : handlers' = Append(handlers, NewHandler(cmd))
    /\ calls' = Append(calls, NoCall)
    /\ chunk' = "line"
    /\ UNCHANGED <<redis, txs, submitted, batch, permVars, viewVars, config, mapFunctions, emits,
                   microQ, stdout, crashed>>

\* JSON.parse throws: the parse_error line is written at once
LineParseError ==
    /\ LineMayArrive
    /\ handlers' = Append(handlers, NewHandler("unparsable"))
    /\ Respond(Len(handlers) + 1, RError("parse_error"))
    /\ calls' = Append(calls, NoCall)
    /\ chunk' = "line"
    /\ UNCHANGED <<redis, txs, submitted, batch, permVars, viewVars, config, mapFunctions, emits,
                   microQ, crashed>>

\* reset: a new, empty array replaces mapFunctions; a map_doc still looping
\* keeps the old array
LineReset ==
    /\ LineMayArrive
    /\ mapFunctions' = <<>>
    /\ microQ' = Append(microQ, Len(handlers) + 1)
    /\ calls' = Append(calls, NoCall)
    /\ chunk' = "line"
    /\ handlers' = [h \in 1..Len(handlers) + 1 |->
                      IF h <= Len(handlers) THEN [handlers[h] EXCEPT !.live = FALSE]
                      ELSE [NewHandler("reset") EXCEPT !.pc = "awaitProcessQuery",
                                                       !.result = Resolves(RTrue)]]
    /\ UNCHANGED <<redis, txs, submitted, batch, permVars, viewVars, config, emits, stdout, crashed>>

\* add_fun: the function is pushed on the array mapFunctions refers to, which
\* a map_doc still looping over that array sees
LineAddFun ==
    /\ LineMayArrive
    /\ \E src \in Sources :
         /\ mapFunctions' = Append(mapFunctions, src)
         /\ handlers' = [h \in 1..Len(handlers) + 1 |->
                           IF h <= Len(handlers)
                           THEN IF handlers[h].live
                                THEN [handlers[h] EXCEPT !.fns = Append(@, src)]
                                ELSE handlers[h]
                           ELSE [NewHandler("add_fun") EXCEPT !.pc = "awaitProcessQuery",
                                                              !.result = Resolves(RTrue)]]
    /\ microQ' = Append(microQ, Len(handlers) + 1)
    /\ calls' = Append(calls, NoCall)
    /\ chunk' = "line"
    /\ UNCHANGED <<redis, txs, submitted, batch, permVars, viewVars, config, emits, stdout, crashed>>

\* add_lib, ddoc, reduce, rereduce and unsupported commands change nothing
\* (LineOtherClears: an unsupported command that falls through to reset)
LineOtherClears ==
    /\ LineMayArrive
    /\ AwaitsSettled("bogus", Resolves(RError("unsupported_command")))
    /\ mapFunctions' = <<>>
    /\ UNCHANGED <<redis, txs, submitted, batch, permVars, viewVars, config, emits, stdout, crashed>>

LineOther ==
    /\ LineMayArrive
    /\ \/ \E cmd \in {"add_lib", "ddoc"} : AwaitsSettled(cmd, Resolves(RTrue))
       \/ \E cmd \in {"reduce", "rereduce"} : AwaitsSettled(cmd, Resolves(RReduce(1)))
       \/ AwaitsSettled("bogus", Resolves(RError("unsupported_command")))
    /\ UNCHANGED <<redis, txs, submitted, batch, permVars, viewVars, config, mapFunctions, emits,
                   stdout, crashed>>

\* mapDoc(fns[k], doc) called by the handler `hr` of request h, up to its
\* first suspension: the handler, the buffer, the call and the transactions
\* after it
MapDocCall(h, hr, k, beh) ==
    LET m == MapDocSync(emits, beh, config.emitSSet)
        c == IF m.called THEN NewCall([NoCall EXCEPT !.n = k - 1], m.ops) ELSE NoCall
    IN  [hr    |-> [hr EXCEPT !.pc = "awaitMapDoc", !.i = k,
                              !.md = [st |-> m.st, thrown |-> m.thrown, list |-> m.list],
                              !.runs = Append(@, [fn |-> hr.fns[k], beh |-> beh,
                                                  stale |-> emits, ops |-> m.ops,
                                                  called |-> m.called, issued |-> c.issued,
                                                  committed |-> 0, failed |-> 0,
                                                  applied |-> {}])],
         emits |-> m.emits,
         call  |-> c,
         txs   |-> IF m.called THEN NewTxs(h, k, m.ops) ELSE {},
         out   |-> LogCalls(h, beh.logs),
         ready |-> m.st # "io"]

\* map_doc: processQuery starts the loop over mapFunctions
LineMapDocOf(runsOf) ==
    /\ LineMayArrive
    /\ LET h  == Len(handlers) + 1
           hr == [NewHandler("map_doc") EXCEPT !.fns = mapFunctions, !.live = TRUE]
       IN  IF mapFunctions = <<>>
           THEN /\ AwaitsSettled("map_doc", Resolves(RRows(<<>>)))
                /\ UNCHANGED <<emits, txs, stdout>>
           ELSE \E beh \in runsOf :
                  LET r == MapDocCall(h, hr, 1, beh)
                  IN  /\ handlers' = Append(handlers, r.hr)
                      /\ emits' = r.emits
                      /\ stdout' = stdout \o r.out
                      /\ calls' = Append(calls, r.call)
                      /\ txs' = txs \cup r.txs
                      /\ microQ' = IF r.ready THEN Append(microQ, h) ELSE microQ
                      /\ chunk' = "line"
    /\ UNCHANGED <<redis, submitted, batch, permVars, viewVars, config, mapFunctions, crashed>>

LineMapDoc == LineMapDocOf(Behaviours)

\* the continuation of `await mapDoc(...)` in processQuery: the catch block
\* when mapDoc rejected, else the next turn of the loop or the return
ResumeProcessQueryOf(runsOf) ==
    /\ ~crashed
    /\ microQ # <<>>
    /\ LET h  == Head(microQ)
           hr == handlers[h]
       IN  /\ hr.pc = "awaitMapDoc"
           /\ IF hr.md.st = "err"
              THEN /\ handlers' = [handlers EXCEPT ![h] =
                        [hr EXCEPT !.pc = "awaitProcessQuery", !.md = NoMapDoc,
                                   !.result = IF CatchThrows(hr.md.thrown) THEN Rejects
                                              ELSE Resolves(RError("processing_failed"))]]
                   /\ microQ' = Append(Tail(microQ), h)
                   /\ UNCHANGED <<emits, calls, txs, stdout>>
              ELSE LET ret == Append(hr.ret, hr.md.list)
                   IN  IF hr.i < Len(hr.fns)
                       THEN \E beh \in runsOf :
                              LET r == MapDocCall(h, [hr EXCEPT !.ret = ret], hr.i + 1, beh)
                              IN  /\ handlers' = [handlers EXCEPT ![h] = r.hr]
                                  /\ emits' = r.emits
                                  /\ stdout' = stdout \o r.out
                                  /\ calls' = [calls EXCEPT ![h] = r.call]
                                  /\ txs' = txs \cup r.txs
                                  /\ microQ' = IF r.ready THEN Append(Tail(microQ), h)
                                                ELSE Tail(microQ)
                       ELSE /\ handlers' = [handlers EXCEPT ![h] =
                                 [hr EXCEPT !.pc = "awaitProcessQuery", !.ret = ret,
                                            !.md = NoMapDoc,
                                            !.result = Resolves(RRows(ret))]]
                            /\ microQ' = Append(Tail(microQ), h)
                            /\ UNCHANGED <<emits, calls, txs, stdout>>
    /\ chunk' = "closed"
    /\ UNCHANGED <<redis, submitted, batch, permVars, viewVars, config, mapFunctions, crashed>>

ResumeProcessQuery == ResumeProcessQueryOf(Behaviours)

\* the continuation of `await processQuery(...)` in lineReceived: respond(),
\* or, when processQuery rejected, a rejection nobody handles
ResumeLineReceived ==
    /\ ~crashed
    /\ microQ # <<>>
    /\ LET h  == Head(microQ)
           hr == handlers[h]
       IN  /\ hr.pc = "awaitProcessQuery"
           /\ IF hr.result.thrown
              THEN /\ handlers' = [handlers EXCEPT ![h].pc = "rejected"]
                   /\ crashed' = TRUE
                   /\ UNCHANGED stdout
              ELSE /\ handlers' = [handlers EXCEPT ![h].pc = "done"]
                   /\ Respond(h, hr.result.body)
                   /\ UNCHANGED crashed
    /\ microQ' = Tail(microQ)
    /\ chunk' = "closed"
    /\ UNCHANGED <<redis, txs, calls, submitted, batch, permVars, viewVars, config, mapFunctions, emits>>

\* a reply of the backend is handled when no continuation is waiting, or
\* together with another reply
ReplyMayArrive == crashed \/ microQ = <<>> \/ chunk = "io"

\* the operations of a batch whose commands a transaction carries
CarriedBy(t) ==
    {j \in 1..Len(t.ops) :
        \E k \in 1..Len(MultiOps(t.ops, t.db)) : MultiOps(t.ops, t.db)[k] = t.ops[j]}

\* the handler of request h learns that the promise of process() settled
Settles(t, ok) ==
    LET h    == t.caller
        hr   == handlers[h]
        c    == calls'[h]
        wake == /\ ~crashed /\ hr.pc = "awaitMapDoc" /\ hr.md.st = "io" /\ hr.i = t.n
                /\ CallSettled(c)
        run  == [hr.runs[t.n] EXCEPT
                    !.committed = IF ok THEN @ + 1 ELSE @,
                    !.failed    = IF ok THEN @ ELSE @ + 1,
                    !.applied   = IF ok THEN @ \cup CarriedBy(t) ELSE @]
    IN  /\ handlers' = [handlers EXCEPT ![h] =
              [hr EXCEPT !.runs[t.n] = run,
                         !.md = IF ~wake THEN @
                                ELSE IF CallResolved(c) THEN [@ EXCEPT !.st = "ok"]
                                ELSE [@ EXCEPT !.st = "err", !.thrown = "Error"]]]
        /\ microQ' = IF wake THEN Append(microQ, h) ELSE microQ
        /\ chunk' = "io"

TxCommit ==
    /\ ReplyMayArrive
    /\ \E t \in txs : Committed(t) /\ Settles(t, TRUE)
    /\ UNCHANGED <<submitted, batch, permVars, viewVars, config, mapFunctions, emits, stdout, crashed>>

TxFail ==
    /\ ReplyMayArrive
    /\ \E t \in txs : Failed(t) /\ Settles(t, FALSE)
    /\ UNCHANGED <<submitted, batch, permVars, viewVars, config, mapFunctions, emits, stdout, crashed>>

Init ==
    /\ redis = NoRedis /\ txs = {} /\ calls = <<>> /\ submitted = {} /\ batch = <<>>
    /\ InitIdlePerm
    /\ config \in [emitSSet : BOOLEAN]
    /\ mapFunctions = <<>> /\ emits = <<>> /\ handlers = <<>> /\ microQ = <<>>
    /\ chunk = "closed" /\ stdout = <<>> /\ crashed = FALSE
    /\ InitIdleView

Next ==
    \/ LineDropped \/ LineParseError \/ LineReset \/ LineAddFun \/ LineOther
    \/ LineMapDoc \/ ResumeProcessQuery \/ ResumeLineReceived
    \/ TxCommit \/ TxFail

Spec == Init /\ [][Next]_vars

(***************************************************************************)
(* The engine fed with map functions that call emit() with every shape of  *)
(* key and value, and with nothing but add_fun and map_doc lines           *)
(***************************************************************************)
EmitKeys ==
    {KeyNull, KeyStr("k"), KeyNum("7"), KeyOther, KeyArr(<<>>), KeyArr(<<"k">>),
     KeyArr(<<SSET_KEY[1], <<"A">>>>),
     KeyArr(<<SSET_KEY[1], <<>>, <<"x">>>>),
     KeyArr(<<SSET_KEY[1], <<"A">>, <<"x">>>>)}

EmitValues ==
    {ValNull, ValPrim, ValCyclic,
     ValObj(1, <<"a">>, "ALL_VALUES"), ValObj(1, <<"a">>, "LAST_VALUE"),
     ValObj(1, <<"a">>, ""), ValObj(NoScore, <<"a">>, "ALL_VALUES")}

EmitCalls == [key : EmitKeys, value : EmitValues]

\* runs that call emit() once, and runs that call it twice
EmitRuns ==
    {[emits |-> <<c>>, logs |-> <<>>, throws |-> "none"] : c \in EmitCalls}
    \cup {[emits |-> <<c, d>>, logs |-> <<>>, throws |-> "none"] :
             c, d \in {RowK, SSet("A", "ALL_VALUES", 1, "a"),
                       [key |-> KeyArr(<<SSET_KEY[1], <<"A">>, <<"x">>>>),
                        value |-> ValObj(2, <<"b">>, "")]}}
    \cup {[emits |-> <<[key |-> KeyStr("k"), value |-> ValPrim],
                       [key |-> KeyNull, value |-> ValNull]>>,
           logs |-> <<>>, throws |-> "none"],
          [emits |-> <<[key |-> KeyNum("7"), value |-> ValPrim],
                       [key |-> KeyArr(<<>>), value |-> ValPrim],
                       [key |-> KeyArr(<<"k">>), value |-> ValNull]>>,
           logs |-> <<>>, throws |-> "none"]}

MapLineAddFun == Len(handlers) < MaxMapLines /\ LineAddFun

MapLineMapDoc == Len(handlers) < MaxMapLines /\ LineMapDocOf(EmitRuns)

MapResumeProcessQuery == ResumeProcessQueryOf(EmitRuns)

NextMap ==
    \/ MapLineAddFun \/ MapLineMapDoc \/ MapResumeProcessQuery \/ ResumeLineReceived
    \/ TxCommit \/ TxFail

SpecMap == Init /\ [][NextMap]_vars

(***************************************************************************)
(* Claims about the query-server engine                                    *)
(***************************************************************************)
Requests == 1..Len(handlers)

\* the positions on standard output of the response lines of request h
Responses(h) == {i \in 1..Len(stdout) : stdout[i].req = h /\ stdout[i].body.t # "log"}

\* the operations request h handed to mapDoc's forEach, and those the
\* backend has made visible
Produced(h) ==
    UNION {{<<k, j>> : j \in 1..Len(handlers[h].runs[k].ops)} :
             k \in 1..Len(handlers[h].runs)}

Visible(h) == {kj \in Produced(h) : kj[2] \in handlers[h].runs[kj[1]].applied}

\* C3: the operations produced by one map_doc request commit atomically:
\* once its response line is written, either all of them are visible in the
\* backend or none is.
C3_MapDocCommitsAtomically ==
    \A h \in Requests :
        (handlers[h].cmd = "map_doc" /\ Responses(h) # {}) =>
            (Visible(h) = {} \/ Visible(h) = Produced(h))

\* C5: response lines are written in the order the request lines were
\* received.
C5_ResponsesInRequestOrder ==
    \A i, j \in 1..Len(stdout) : i < j => stdout[i].req < stdout[j].req

\* C6: a map_doc request never has more than one response line, and has
\* exactly one when its handler has run to its end.
C6_ExactlyOneResponse ==
    \A h \in Requests :
        handlers[h].cmd = "map_doc" =>
            /\ Cardinality(Responses(h)) <= 1
            /\ handlers[h].pc \in {"done", "rejected"} => Cardinality(Responses(h)) = 1

\* the response line of request h (the first, should there be several)
ResponseOf(h) == stdout[CHOOSE i \in Responses(h) : \A j \in Responses(h) : i <= j].body

\* C7: the response line of a map_doc request that is an emission list is
\* written only after every transaction of the document's batches has
\* committed; when a backend write of the document failed, the response is
\* the error processing_failed and not an emission list.
C7_ResponseAfterCommit ==
    \A h \in Requests :
        (handlers[h].cmd = "map_doc" /\ Responses(h) # {}) =>
            /\ ResponseOf(h).t = "rows" =>
                  /\ \A t \in txs : t.caller # h
                  /\ \A k \in 1..Len(handlers[h].runs) :
                        /\ handlers[h].runs[k].failed = 0
                        /\ handlers[h].runs[k].called =>
                              /\ handlers[h].runs[k].issued > 0
                              /\ handlers[h].runs[k].committed = handlers[h].runs[k].issued
            /\ (\E k \in 1..Len(handlers[h].runs) : handlers[h].runs[k].failed > 0) =>
                  ResponseOf(h) = RError("processing_failed")

C7_Witness ==
    /\ \E h \in Requests :
          /\ handlers[h].cmd = "map_doc" /\ Responses(h) # {}
          /\ ResponseOf(h).t = "rows"
          /\ \E k \in 1..Len(handlers[h].runs) : handlers[h].runs[k].committed = 2
    /\ \E h \in Requests :
          /\ handlers[h].cmd = "map_doc" /\ Responses(h) # {}
          /\ \E k \in 1..Len(handlers[h].runs) : handlers[h].runs[k].failed > 0

\* process() on every batch the client of the service can assemble
ProcessRejectsInvalid ==
    \A b \in Batches(SvcOps, MaxOps) :
        (\E i \in 1..Len(b) : b[i].id = <<>> \/ b[i].keep \notin {"ALL_VALUES", "LAST_VALUE"})
            => SSetRedisProcess(b).threw /\ SSetRedisProcess(b).issued = <<>>

\* C9: a batch holding an operation with an unrecognized keep value or an
\* empty id-path makes process() fail without sending any transaction, so no
\* operation of the batch becomes visible; the engine answers the document
\* with the error processing_failed.
C9_InvalidBatchFailsWhole ==
    /\ ProcessRejectsInvalid
    /\ \A h \in Requests : \A k \in 1..Len(handlers[h].runs) :
          LET run == handlers[h].runs[k]
          IN  (\E i \in 1..Len(run.ops) :
                    run.ops[i].id = <<>> \/ run.ops[i].keep \notin {"ALL_VALUES", "LAST_VALUE"})
                => /\ run.called /\ run.issued = 0 /\ run.applied = {}
                   /\ \A t \in txs : ~(t.caller = h /\ t.n = k)
                   /\ calls[h].n = k => CallRejected(calls[h])
                   /\ Responses(h) # {} => ResponseOf(h) = RError("processing_failed")
                   /\ handlers[h].pc = "done" => Responses(h) # {}

C9_Witness ==
    \E h \in Requests : \E k \in 1..Len(handlers[h].runs) :
        /\ \E i \in 1..Len(handlers[h].runs[k].ops) :
              handlers[h].runs[k].ops[i].keep = "FOO"
        /\ \E i \in 1..Len(handlers[h].runs[k].ops) :
              handlers[h].runs[k].ops[i].keep = "ALL_VALUES"
        /\ Responses(h) # {}

\* C10: the emission list returned for a map function holds, with emit-sset
\* off, exactly the emissions of that run that were not diverted to the
\* sorted-set service, and with emit-sset on all of them, in emit order; every
\* diverted emission is sent to the sorted-set service.
C10_EmissionListFollowsEmitSSet ==
    \A h \in Requests :
        (handlers[h].cmd = "map_doc" /\ Responses(h) # {} /\ ResponseOf(h).t = "rows") =>
            /\ Len(ResponseOf(h).lists) = Len(handlers[h].runs)
            /\ \A k \in 1..Len(handlers[h].runs) :
                  LET own  == EmitAll(handlers[h].runs[k].beh.emits)
                      divs == SelectSeq(own, Diverted)
                  IN  /\ ResponseOf(h).lists[k] =
                            SelectSeq(own, LAMBDA kv : config.emitSSet \/ ~Diverted(kv))
                      /\ handlers[h].runs[k].ops = [i \in 1..Len(divs) |-> OpOf(divs[i])]

(***************************************************************************)
(* Claims about the shapes of emissions                                    *)
(***************************************************************************)
\* the requests answered with an array of emission lists
Answered == {h \in Requests : handlers[h].cmd = "map_doc" /\ Responses(h) # {}
                                /\ ResponseOf(h).t = "rows"}

\* the buffer records of the emit() calls made by run k of request h
Own(h, k) == EmitAll(handlers[h].runs[k].beh.emits)

InSeq(x, sq) == \E i \in 1..Len(sq) : sq[i] = x

\* a $SSET key with a database and an id segment, and a value {score, value}
\* with a numeric score and no keep field
KeepAbsent(kv) ==
    /\ ~kv.null /\ Len(kv.elems) >= 3 /\ kv.elems[1] = "$SSET" /\ kv.elems[2] # <<>>
    /\ kv.value.t = "obj" /\ kv.value.score # NoScore /\ kv.value.keep = ""

\* C11: an emission under a $SSET key whose value has a numeric score and no
\* keep field is sent to the sorted-set service as an ALL_VALUES operation,
\* and with emit-sset off it is not returned as a view row.
C11_KeepDefaultsToAllValues ==
    \A h \in Answered : \A k \in 1..Len(handlers[h].runs) :
        \A n \in 1..Len(Own(h, k)) :
            KeepAbsent(Own(h, k)[n]) =>
                /\ InSeq([OpOf(Own(h, k)[n]) EXCEPT !.keep = "ALL_VALUES"],
                         handlers[h].runs[k].ops)
                /\ ~config.emitSSet => ~InSeq(Own(h, k)[n], ResponseOf(h).lists[k])

\* a valid $SSET emission: a key of three or more elements that starts with
\* "$SSET" and names a database, and an object value with a numeric score
ValidSSet(kv) ==
    /\ ~kv.null /\ Len(kv.elems) >= 3 /\ kv.elems[1] = "$SSET" /\ kv.elems[2] # <<>>
    /\ kv.value.t = "obj" /\ kv.value.score # NoScore

\* C12: the emissions of a run that are not valid $SSET emissions are returned
\* unchanged and in order as view rows, produce no sorted-set operation, and
\* do not make the map_doc request fail.
C12_OtherShapesPassThrough ==
    \A h \in Requests :
        (handlers[h].cmd = "map_doc" /\ Responses(h) # {}) =>
            \A k \in 1..Len(handlers[h].runs) :
                LET run   == handlers[h].runs[k]
                    plain == SelectSeq(Own(h, k), LAMBDA kv : ~ValidSSet(kv))
                IN  run.stale = <<>> =>
                      /\ Len(run.ops) <= Len(Own(h, k)) - Len(plain)
                      /\ ResponseOf(h).t = "rows" =>
                            SelectSeq(ResponseOf(h).lists[k], LAMBDA kv : ~ValidSSet(kv)) = plain
                      /\ (/\ k = Len(handlers[h].runs)
                          /\ plain = Own(h, k)
                          /\ Serializable(handlers[h].result.body))
                            => ResponseOf(h).t = "rows"

\* C13: a run of a map function starts with an empty scratch buffer, and the
\* emission list returned for it holds only records emitted by that run.
C13_NoCarryOver ==
    \A h \in Requests : \A k \in 1..Len(handlers[h].runs) :
        /\ handlers[h].runs[k].stale = <<>>
        /\ h \in Answered =>
              /\ Len(ResponseOf(h).lists[k]) <= Len(Own(h, k))
              /\ \A n \in 1..Len(ResponseOf(h).lists[k]) :
                    InSeq(ResponseOf(h).lists[k][n], Own(h, k))

\* a step that writes an error response on standard output
ErrorStep ==
    /\ Len(stdout') = Len(stdout) + 1
    /\ stdout'[Len(stdout')].body.t = "error"

\* C14: a request answered with an error leaves the engine ready: the
\* registered map functions are unchanged, nothing of the failed request is
\* left in the scratch buffer for the next request, and no request stops the
\* engine.
C14_ErrorsAreContained ==
    [][/\ ErrorStep => (mapFunctions' = mapFunctions /\ emits' = <<>>)
       /\ ~crashed']_vars

\* the add_fun requests received before request h and after the last reset
\* received before h
SinceReset(h) ==
    {g \in 1..(h - 1) :
        /\ handlers[g].cmd = "add_fun"
        /\ \A r \in (g + 1)..(h - 1) : handlers[r].cmd # "reset"}

\* C15: reset is answered true, and the array answered to a map_doc request
\* holds one emission list per add_fun request accepted since the most recent
\* reset (none when no add_fun followed the reset).
C15_OneListPerRegisteredFunction ==
    \A h \in Requests :
        /\ (handlers[h].cmd = "reset" /\ Responses(h) # {}) => ResponseOf(h) = RTrue
        /\ h \in Answered => Len(ResponseOf(h).lists) = Cardinality(SinceReset(h))

\* a step that receives, or answers, a request with an unsupported command
UnsupportedStep ==
    \/ /\ Len(handlers') = Len(handlers) + 1
       /\ handlers'[Len(handlers')].cmd = "bogus"
    \/ /\ Len(stdout') = Len(stdout) + 1
       /\ handlers'[stdout'[Len(stdout')].req].cmd = "bogus"

\* C16: a request with an unsupported command is answered once, with the
\* error unsupported_command, and neither receiving nor answering it changes
\* the registered map functions, the scratch buffer or the backend.
C16_UnsupportedCommand ==
    /\ [](\A h \in Requests :
             handlers[h].cmd = "bogus" =>
                /\ Cardinality(Responses(h)) = (IF handlers[h].pc = "done" THEN 1 ELSE 0)
                /\ Responses(h) # {} => ResponseOf(h) = RError("unsupported_command")
                /\ handlers[h].runs = <<>> /\ calls[h] = NoCall)
    /\ [][UnsupportedStep => UNCHANGED <<mapFunctions, emits, redis, txs>>]_vars

C16_Witness ==
    \E h, g \in Requests :
        /\ handlers[h].cmd = "bogus" /\ Responses(h) # {}
        /\ h < g /\ g \in Answered /\ Len(ResponseOf(g).lists) = 1
        /\ \A i \in Responses(h) : \A j \in Responses(g) : i < j

(***************************************************************************)
(* Redis reads: ZRANGE by rank, ZRANGE BYSCORE [REV] [LIMIT], ZCOUNT       *)
(***************************************************************************)
Reverse(sq) == [i \in 1..Len(sq) |-> sq[Len(sq) + 1 - i]]

\* a range by rank that always starts and stops at the first entry
ZRangeFirst(z, start, stop) == IF z = {} THEN <<>> ELSE SubSeq(ZSorted(z), 1, 1)

\* ZRANGE key start stop: ranks counted from 0, negative ones from the end
ZRangeByRank(z, start, stop) ==
    LET n  == Cardinality(z)
        s0 == IF start < 0 THEN n + start ELSE start
        e0 == IF stop < 0 THEN n + stop ELSE stop
        s1 == IF s0 < 0 THEN 0 ELSE s0
        e1 == IF e0 >= n THEN n - 1 ELSE e0
    IN  IF s1 > e1 \/ s1 >= n THEN <<>> ELSE SubSeq(ZSorted(z), s1 + 1, e1 + 1)

\* LIMIT offset count applied to the entries a range selected
Limit(sq, offset, count) ==
    IF offset >= Len(sq) THEN <<>>
    ELSE LET last == IF offset + count > Len(sq) THEN Len(sq) ELSE offset + count
         IN  SubSeq(sq, offset + 1, last)

\* a count of the whole set, whatever the bounds
ZCard(z, min, max) == Cardinality(z)

\* ZCOUNT key min max
ZCount(z, min, max) == Cardinality({e \in z : min <= e.score /\ e.score <= max})

\* a score range that takes its bounds in either order
ZRangeBetween(z, min, max) ==
    SelectSeq(ZSorted(z), LAMBDA e : \/ min <= e.score /\ e.score <= max
                                     \/ max <= e.score /\ e.score <= min)

\* ZRANGE key min max BYSCORE: ascending, both bounds inclusive
ZRangeByScore(z, min, max) ==
    SelectSeq(ZSorted(z), LAMBDA e : min <= e.score /\ e.score <= max)

\* a REV that leaves the order ascending
ZRangeByScoreFwd(z, max, min) == ZRangeByScore(z, min, max)

\* ZRANGE key max min BYSCORE REV: descending, the greater bound comes first
ZRangeByScoreRev(z, max, min) == Reverse(ZRangeByScore(z, min, max))

\* JSON.parse of a JSON string: the quotes go, an escaped character stands
\* for itself
RECURSIVE Unescape(_)
Unescape(s) ==
    IF s = <<>> THEN <<>>
    ELSE IF Head(s) = "\\" /\ Len(s) >= 2 THEN <<s[2]>> \o Unescape(SubSeq(s, 3, Len(s)))
    ELSE <<Head(s)>> \o Unescape(Tail(s))

JSONparse(m) == Unescape(SubSeq(m, 2, Len(m) - 1))

(***************************************************************************)
(* SSetRedis.rangeBy                                                       *)
(***************************************************************************)
\* an optional parameter: absent (undefined) or a value
Absent  == [has |-> FALSE, v |-> <<>>]
Some(v) == [has |-> TRUE, v |-> v]
NoNum   == [has |-> FALSE, v |-> 0]
\* an optional boolean parameter is one of "undefined", "true", "false"

\* the count sent when only an offset is given: 9999999999 in the source, here
\* the largest such number of nines an integer of the checker holds
LARGE_COUNT == 999999999

\* typeof query.offset == 'number' || typeof query.count === 'number'
hasOffsetOrCount(query) == query.offset.has \/ query.count.has

\* query.order === 'desc' && by === 'SCORE'
isReversed(by, query) == query.order = "desc" /\ by = "SCORE"

\* options.LIMIT, when paging was asked for
LIMITOf(query) ==
    [count  |-> IF query.count.has THEN query.count.v ELSE LARGE_COUNT,
     offset |-> IF query.offset.has THEN query.offset.v ELSE 0]

\* query.includeTotal && hasOffsetOrCount
needZCount(query) == query.includeTotal = "true" /\ hasOffsetOrCount(query)

\* Redis refuses LIMIT on a range by rank
ZRangeRefused(by, query) == by = "INDEX" /\ hasOffsetOrCount(query)

\* the reply of zRange / zRangeWithScores to the command rangeBy sends
zRange(z, by, query) ==
    LET range == IF by = "INDEX" THEN ZRangeByRank(z, query.min, query.max)
                 ELSE IF isReversed(by, query)
                      THEN ZRangeByScoreRev(z, query.max, query.min)
                      ELSE ZRangeByScore(z, query.min, query.max)
        paged == IF hasOffsetOrCount(query)
                 THEN Limit(range, LIMITOf(query).offset, LIMITOf(query).count)
                 ELSE range
    IN  [i \in 1..Len(paged) |->
           [value |-> paged[i].member,
            score |-> IF query.includeScores = "true" THEN paged[i].score ELSE NoScore]]

\* the response rangeBy builds once both replies are there
rangeByResponse(query, values, total) ==
    [paging |-> [count  |-> IF hasOffsetOrCount(query) THEN LIMITOf(query).count ELSE 0 - 1,
                 offset |-> IF hasOffsetOrCount(query) THEN LIMITOf(query).offset ELSE 0,
                 total  |-> IF hasOffsetOrCount(query) THEN total ELSE Len(values)],
     rows |-> [i \in 1..Len(values) |->
                 [value |-> JSONparse(values[i].value), score |-> values[i].score]]]

\* a promise: pending, resolved with a value or rejected with an error
Pending == [state |-> "pending", value |-> [kind |-> "none"]]
Resolved(v) == [state |-> "resolved", value |-> v]
Rejected(e) == [state |-> "rejected", value |-> e]

\* the values stored in the set the calls read (one of them needs escaping)
RangeValues == {<<"a">>, <<"b">>, <<"\"">>}

\* a sorted set as process() leaves it: one entry per stored value
StoredSets ==
    {{[member |-> JSONstringify(v), score |-> f[v]] : v \in S} :
        f \in [RangeValues -> Scores], S \in SUBSET RangeValues}

\* the backend the calls read: the set A/x, next to a set of another database
RangeBackends ==
    {ZPut(ZPut(NoRedis, SSetRedisKey(<<"B">>, <<<<"x">>>>),
               {[member |-> JSONstringify(<<"b">>), score |-> 1]}),
          TheKey, z) : z \in StoredSets}

MaxOffset == 1   \* the offsets and counts a range query pages with

OptNum(S) == {NoNum} \cup {Some(n) : n \in S}

IndexQueries ==
    [min : {0 - 2, 0 - 1, 0, 1}, max : {0 - 1, 0, 1},
     offset : OptNum({0}), count : OptNum({1}),
     order : {"undefined", "desc"}, includeTotal : {"undefined", "true", "false"},
     includeScores : {"undefined", "true"}]

ScoreQueries ==
    [min : 0..MaxScore, max : 1..MaxScore,
     offset : OptNum(0..MaxOffset), count : OptNum(1..MaxOffset),
     order : {"undefined", "asc", "desc"}, includeTotal : {"undefined", "true", "false"},
     includeScores : {"undefined", "true"}]

RedisErrors ==
    {[name |-> "Error", message |-> "Socket closed unexpectedly", stack |-> "redis"]}
LimitRefused ==
    [name |-> "ErrorReply",
     message |-> "ERR syntax error, LIMIT is only supported in combination with either BYSCORE or BYLEX",
     stack |-> "redis"]

NoReply      == [state |-> "none"]
ReplyPending == [state |-> "pending"]
Reply(v)     == [state |-> "ok", v |-> v]
ReplyError(e) == [state |-> "failed", error |-> e]

InitRange ==
    /\ redis \in RangeBackends
    /\ \E by \in {"INDEX", "SCORE"} :
         \E query \in (IF by = "INDEX" THEN IndexQueries ELSE ScoreQueries) :
            rangeCall = [pc |-> "idle", by |-> by, db |-> <<"A">>, id |-> <<<<"x">>>>,
                         query |-> query, zRange |-> NoReply, zCount |-> NoReply,
                         promise |-> Pending]
    /\ txs = {} /\ calls = (Client :> NoCall) /\ submitted = {} /\ batch = <<>>
    /\ InitIdlePerm /\ InitIdleEngine /\ viewCall = NoViewCall /\ keyCall = NoKeyCall

IdleOutsideRange ==
    UNCHANGED <<svcVars, permVars, engVars, viewCall, keyCall>>

\* rangeBy up to its await: the range fetch, and the count fetch when needed
rangeBy ==
    /\ rangeCall.pc = "idle"
    /\ rangeCall' = [rangeCall EXCEPT
                       !.pc = "await",
                       !.zRange = ReplyPending,
                       !.zCount = IF needZCount(rangeCall.query) THEN ReplyPending
                                  ELSE Reply(0 - 1)]
    /\ IdleOutsideRange

\* Redis answers the ZRANGE
zRangeReplies ==
    /\ rangeCall.pc # "none" /\ rangeCall.zRange = ReplyPending
    /\ \/ rangeCall' =
            [rangeCall EXCEPT !.zRange =
                IF ZRangeRefused(rangeCall.by, rangeCall.query) THEN ReplyError(LimitRefused)
                ELSE Reply(zRange(ZGet(redis, SSetRedisKey(rangeCall.db, rangeCall.id)),
                                  rangeCall.by, rangeCall.query))]
       \/ \E e \in RedisErrors : rangeCall' = [rangeCall EXCEPT !.zRange = ReplyError(e)]
    /\ IdleOutsideRange

\* Redis answers the ZCOUNT
zCountReplies ==
    /\ rangeCall.pc # "none" /\ rangeCall.zCount = ReplyPending
    /\ \/ rangeCall' =
            [rangeCall EXCEPT !.zCount =
                Reply(ZCount(ZGet(redis, SSetRedisKey(rangeCall.db, rangeCall.id)),
                             rangeCall.query.min, rangeCall.query.max))]
       \/ \E e \in RedisErrors : rangeCall' = [rangeCall EXCEPT !.zCount = ReplyError(e)]
    /\ IdleOutsideRange

\* await Promise.all([...]) settles and rangeBy returns, or rejects
rangeByReturns ==
    /\ rangeCall.pc = "await"
    /\ \/ /\ rangeCall.zRange.state = "ok" /\ rangeCall.zCount.state = "ok"
          /\ rangeCall' = [rangeCall EXCEPT
                             !.pc = "done",
                             !.promise = Resolved(rangeByResponse(rangeCall.query,
                                                     rangeCall.zRange.v, rangeCall.zCount.v))]
       \/ /\ rangeCall.zRange.state = "failed"
          /\ rangeCall' = [rangeCall EXCEPT !.pc = "done",
                                             !.promise = Rejected(rangeCall.zRange.error)]
       \/ /\ rangeCall.zCount.state = "failed"
          /\ rangeCall' = [rangeCall EXCEPT !.pc = "done",
                                             !.promise = Rejected(rangeCall.zCount.error)]
    /\ IdleOutsideRange

NextRange == rangeBy \/ zRangeReplies \/ zCountReplies \/ rangeByReturns

SpecRange == InitRange /\ [][NextRange]_vars

(***************************************************************************)
(* The view interceptor: supercouch(db, config) replaces db.view.          *)
(* The source tree holds two copies of it: lib/supercouch.nano/src/index.ts *)
(* and the one that follows the service in                                 *)
(* lib/supercouch.sset.redis/src/sset.redis.ts. A call is made on one of   *)
(* them. The sorted-set service and the native view are the interceptor's  *)
(* collaborators: what they answer is a nondeterministic choice.           *)
(***************************************************************************)
MaxKeys == 2    \* keys in the "keys" parameter of a view call

CopyNano  == "supercouch.nano/src/index.ts"
CopyRedis == "supercouch.sset.redis/src/sset.redis.ts"
Copies == {CopyNano, CopyRedis}

\* a JavaScript value inside a view key: a string, a number, or undefined
Str(s) == [t |-> "string", s |-> s, n |-> 0]
Num(n) == [t |-> "number", s |-> <<>>, n |-> n]
Undef  == [t |-> "undefined", s |-> <<>>, n |-> 0]


Marker    == Str(<<"$", "S", "S", "E", "T">>)
MarkerSET == Str(<<"$", "S", "E", "T">>)
Stuff     == Str(<<"S", "T", "U", "F", "F">>)

\* a[i] of a JavaScript array, i counted from 0
At(a, i) == IF i >= 0 /\ i < Len(a) THEN a[i + 1] ELSE Undef

\* a.slice(2, -1)
Slice2(a) == IF Len(a) <= 3 THEN <<>> ELSE SubSeq(a, 3, Len(a) - 1)

\* a || b of two optional parameters (an array is truthy)
OrElse(a, b) == IF a.has THEN a ELSE b

\* include_scores ?? true
OrTrue(b) == IF b = "undefined" THEN "true" ELSE b

getQueryType(copy, qs) ==
    IF qs.keys.has /\ Len(qs.keys.v) > 0 /\ At(qs.keys.v[1], 0) = Marker
    THEN "keys"
    ELSE LET startKey == OrElse(qs.start_key, qs.startkey)
             endKey   == OrElse(qs.end_key, qs.endkey)
             marker   == IF copy = CopyNano THEN MarkerSET ELSE Marker
         IN  IF startKey.has /\ At(startKey.v, 0) = marker /\ endKey.has
             THEN IF Len(startKey.v) # Len(endKey.v) THEN "null"
                  ELSE IF At(startKey.v, Len(startKey.v) - 1).t # "number" THEN "null"
                  ELSE IF At(endKey.v, Len(endKey.v) - 1).t # "number" THEN "null"
                  ELSE IF \E i \in 0..(Len(startKey.v) - 2) :
                             At(startKey.v, i) # At(endKey.v, i)
                       THEN "null"
                  ELSE "range"
             ELSE "null"

\* a query for the lowest-ranked entry instead of the highest-ranked one
KeysRangeQueryHead(copy, options) ==
    [min |-> Num(0), max |-> Num(0), offset |-> NoNum, count |-> NoNum,
     order |-> "undefined", includeTotal |-> "false", includeScores |-> options.withScores]

\* the query processKeysQuery hands to rangeByIndex for every key
KeysRangeQuery(copy, options) ==
    IF copy = CopyNano
    THEN [min |-> Num(-1), max |-> Num(-1), offset |-> NoNum, count |-> Some(1),
          order |-> "undefined", includeTotal |-> "undefined", includeScores |-> "true"]
    ELSE [min |-> Num(-1), max |-> Num(-1), offset |-> NoNum, count |-> NoNum,
          order |-> "undefined", includeTotal |-> "false",
          includeScores |-> options.withScores]

\* processKeysQuery up to its await: one rangeByIndex call per key
processKeysQueryCalls(copy, keys, options) ==
    [i \in 1..Len(keys) |->
        [by |-> "INDEX", db |-> At(keys[i], 1),
         id |-> IF Len(keys[i]) <= 2 THEN <<>> ELSE SubSeq(keys[i], 3, Len(keys[i])),
         query |-> KeysRangeQuery(copy, options), state |-> "pending"]]

\* processRangeQuery up to its await: one rangeByScore call
processRangeQueryCalls(copy, startKey, endKey, options, skip, limit, descending) ==
    <<[by |-> "SCORE", db |-> At(startKey, 1), id |-> Slice2(startKey),
       query |-> [min |-> At(startKey, Len(startKey) - 1),
                  max |-> IF copy = CopyNano THEN At(startKey, Len(endKey) - 1)
                          ELSE At(endKey, Len(endKey) - 1),
                  offset |-> skip, count |-> limit,
                  order |-> IF descending = "true" THEN "desc" ELSE "asc",
                  includeTotal |-> IF copy = CopyNano THEN "true" ELSE options.withTotalRows,
                  includeScores |-> IF copy = CopyNano THEN "true" ELSE options.withScores],
       state |-> "pending"]>>

\* keys[index].join(',')
JoinKey(key) == Join([i \in 1..Len(key) |-> key[i].s], <<",">>)

\* the rows processKeysQuery builds; reading row.value of a missing row throws
KeysRowsThrow(results) == \E i \in 1..Len(results) : results[i].rows = <<>>

\* rows in the order of the answers counted from the last key
processKeysQueryReversed(keys, results) ==
    [offset |-> 0, total_rows |-> Len(keys),
     rows |-> [i \in 1..Len(keys) |->
                 [id |-> <<"#", "S", "S", "E", "T">>, key |-> JoinKey(keys[i]),
                  value |-> results[Len(keys) + 1 - i].rows[1].value,
                  score |-> results[Len(keys) + 1 - i].rows[1].score]]]

processKeysQueryResponse(keys, results) ==
    [offset |-> 0, total_rows |-> Len(keys),
     rows |-> [i \in 1..Len(keys) |->
                 [id |-> <<"#", "S", "S", "E", "T">>, key |-> JoinKey(keys[i]),
                  value |-> results[i].rows[1].value, score |-> results[i].rows[1].score]]]

processRangeQueryResponse(startKey, result) ==
    [offset |-> result.paging.offset, total_rows |-> result.paging.total,
     rows |-> [i \in 1..Len(result.rows) |->
                 [id |-> <<"#", "S", "S", "E", "T">>,
                  key |-> Join(<<<<"#", "S", "S", "E", "T">>, At(startKey, 1).s>>
                               \o [j \in 1..Len(Slice2(startKey)) |-> Slice2(startKey)[j].s],
                               <<",">>),
                  value |-> result.rows[i].value, score |-> result.rows[i].score]]]

\* the error the catch blocks of view build from what was thrown
requestError(e, reason) ==
    [name |-> "supercouch_error", reason |-> reason, statusCode |-> 500,
     message |-> <<"SuperCouch.SSet Failed: ", e.message>>, stack |-> e.stack]

(***************************************************************************)
(* The calls made on the interceptor                                       *)
(***************************************************************************)
ViewKeys ==
    {<<Marker, Str(<<"A">>), Str(<<"x">>)>>,
     <<Marker, Str(<<"B">>), Str(<<"x">>), Str(<<"y">>)>>,
     <<Marker, Str(<<"A">>)>>,
     <<Stuff, Str(<<"A">>), Str(<<"x">>)>>}

RangeKey(marker, id, score) == <<marker, Str(<<"A">>), Str(id), Num(score)>>

ViewRangeKeys ==
    {RangeKey(Marker, <<"x">>, n) : n \in Scores}
    \cup {RangeKey(Marker, <<"y">>, 1), RangeKey(Stuff, <<"x">>, 1),
          RangeKey(MarkerSET, <<"x">>, 1),
          <<Marker, Str(<<"A">>), Str(<<"x">>)>>,
          <<Marker, Str(<<"A">>), Num(1)>>}

ViewOptions ==
    LET none == [skip |-> NoNum, limit |-> NoNum, descending |-> "undefined",
                 include_scores |-> "undefined", include_total_rows |-> "undefined"]
    IN  {none, [none EXCEPT !.skip = Some(1)], [none EXCEPT !.limit = Some(1)],
         [none EXCEPT !.descending = "true"], [none EXCEPT !.include_scores = "false"],
         [none EXCEPT !.include_total_rows = "false"],
         [skip |-> Some(1), limit |-> Some(1), descending |-> "true",
          include_scores |-> "false", include_total_rows |-> "false"]}

\* the two spellings of a start (or end) key parameter: one of them, or both
Spellings(S) ==
    {<<Some(k), Absent>> : k \in S} \cup {<<Absent, Some(k)>> : k \in S}
    \cup {<<Some(RangeKey(Marker, <<"x">>, 1)), Some(RangeKey(Marker, <<"x">>, MaxScore))>>}

ViewParams(kind, keys, start, end, o) ==
    [kind |-> kind, keys |-> keys,
     start_key |-> start[1], startkey |-> start[2], end_key |-> end[1], endkey |-> end[2],
     skip |-> o.skip, limit |-> o.limit, descending |-> o.descending,
     include_scores |-> o.include_scores, include_total_rows |-> o.include_total_rows]

NoKey == <<Absent, Absent>>

\* params is left out, or the callback is passed in its place
ParamsMissing ==
    {ViewParams(kind, Absent, NoKey, NoKey, o) :
        kind \in {"undefined", "function"},
        o \in {x \in ViewOptions : x.skip = NoNum /\ x.limit = NoNum
                                   /\ x.descending = "undefined"
                                   /\ x.include_scores = "undefined"
                                   /\ x.include_total_rows = "undefined"}}

ParamsKeys ==
    {ViewParams("object", Some(ks), NoKey, NoKey, o) :
        ks \in UNION {[1..n -> ViewKeys] : n \in 0..MaxKeys}, o \in ViewOptions}

ParamsRange ==
    {ViewParams("object", Absent, start, end, o) :
        start \in Spellings(ViewRangeKeys) \cup {NoKey},
        end \in Spellings(ViewRangeKeys) \cup {NoKey}, o \in ViewOptions}

\* keys and a start/end pair in one call
ParamsBoth ==
    {ViewParams("object", Some(<<k>>), <<Some(RangeKey(Marker, <<"x">>, 1)), Absent>>,
                <<Some(RangeKey(Marker, <<"x">>, MaxScore)), Absent>>, o) :
        k \in ViewKeys, o \in ViewOptions}

AllViewParams == ParamsMissing \cup ParamsKeys \cup ParamsRange \cup ParamsBoth

\* what the collaborators answer
NoError == [name |-> "null"]
ServiceErrors == {[name |-> "Error", message |-> "Socket closed unexpectedly", stack |-> "redis"]}
RowUndefined == [name |-> "TypeError", message |-> "Cannot read properties of undefined",
                 stack |-> "processKeysQuery"]
ParamsUndefined == [name |-> "TypeError", message |-> "Cannot read properties of undefined",
                    stack |-> "getQueryType"]
\* the sets behind the keys the calls name
Entry(v, score) == [member |-> JSONstringify(v), score |-> score]

ViewBackends ==
    {NoRedis,
     ZPut(ZPut(ZPut(NoRedis,
        SSetRedisKey(<<"A">>, <<<<"x">>>>), {Entry(<<"a">>, 1), Entry(<<"b">>, MaxScore)}),
        SSetRedisKey(<<"B">>, <<<<"x">>, <<"y">>>>), {Entry(<<"b">>, 1)}),
        SSetRedisKey(<<"A">>, <<<<"y">>>>), {Entry(<<"a">>, 1)}),
     ZPut(ZPut(ZPut(NoRedis,
        SSetRedisKey(<<"A">>, <<<<"x">>>>), {Entry(<<"a">>, 1), Entry(<<"b">>, 1)}),
        SSetRedisKey(<<"B">>, <<<<"x">>, <<"y">>>>), {Entry(<<"a">>, MaxScore)}),
        SSetRedisKey(<<"A">>, <<>>), {Entry(<<"\"">>, 1)})}

\* the set a service call of the interceptor reads
SetOfCall(r, call) ==
    ZGet(r, SSetRedisKey(call.db.s, [j \in 1..Len(call.id) |-> call.id[j].s]))

\* Redis takes numbers only as the bounds of a range
BoundsRefused(call) == call.query.min.t # "number" \/ call.query.max.t # "number"
NotAFloat == [name |-> "ErrorReply", message |-> "ERR min or max is not a float",
              stack |-> "redis"]

\* what SSetRedis.rangeBy answers a call with when its backend calls go through
rangeByAnswer(r, call) ==
    LET query == [call.query EXCEPT !.min = call.query.min.n, !.max = call.query.max.n]
        z     == SetOfCall(r, call)
    IN  IF BoundsRefused(call) THEN [state |-> "failed", error |-> NotAFloat]
        ELSE IF ZRangeRefused(call.by, query)
        THEN [state |-> "failed", error |-> LimitRefused]
        ELSE [state |-> "ok",
              result |-> rangeByResponse(query, zRange(z, call.by, query),
                            IF needZCount(query) THEN ZCount(z, query.min, query.max)
                            ELSE 0 - 1)]

CouchResult == [kind |-> "couch_response"]
CouchError  == [kind |-> "couch_error"]


InitView ==
    /\ \E copy \in Copies, params \in AllViewParams, callback \in BOOLEAN :
          /\ params.kind = "function" => ~callback
          /\ viewCall = [pc |-> "idle", copy |-> copy, params |-> params,
                         callback |-> callback, type |-> "none", couchCalls |-> <<>>,
                         sset |-> <<>>, promise |-> Pending, ticks |-> <<>>,
                         callbacks |-> <<>>]
    /\ redis \in ViewBackends
    /\ txs = {} /\ calls = (Client :> NoCall) /\ submitted = {} /\ batch = <<>>
    /\ InitIdlePerm /\ InitIdleEngine /\ rangeCall = NoRangeCall /\ keyCall = NoKeyCall

(***************************************************************************)
(* The extended view method, one action per stretch between two awaits     *)
(***************************************************************************)
IdleOutsideView == UNCHANGED <<svcVars, permVars, engVars, rangeCall, keyCall>>

\* ret._couchView(ddoc, viewName, params, callback) / db_view(...)
CallsCouchView(v) ==
    [v EXCEPT !.pc = "couch",
              !.couchCalls = Append(@, [params |-> v.params, callback |-> v.callback,
                                        outcome |-> Pending])]

\* the call of view, up to its first await
view ==
    /\ viewCall.pc = "idle"
    /\ LET v == viewCall
           params == v.params
           options == [withScores |-> OrTrue(params.include_scores),
                       withTotalRows |-> OrTrue(params.include_total_rows)]
           type == getQueryType(v.copy, params)
       IN  IF v.copy = CopyRedis /\ params.kind \in {"function", "undefined"}
           THEN viewCall' = CallsCouchView(v)
           ELSE IF params.kind = "undefined"
           THEN viewCall' = [v EXCEPT !.pc = "done", !.type = "threw",
                                      !.promise = Rejected(ParamsUndefined)]
           ELSE IF type = "keys"
           THEN viewCall' = [v EXCEPT !.pc = "keys", !.type = type,
                               !.sset = processKeysQueryCalls(v.copy, params.keys.v, options)]
           ELSE IF type = "range"
           THEN viewCall' =
                  [v EXCEPT !.pc = "range", !.type = type,
                     !.sset = processRangeQueryCalls(v.copy,
                                 OrElse(params.startkey, params.start_key).v,
                                 OrElse(params.endkey, params.end_key).v,
                                 options, params.skip, params.limit,
                                 IF v.copy = CopyNano THEN "undefined"
                                 ELSE params.descending)]
           ELSE viewCall' = [CallsCouchView(v) EXCEPT !.type = type]
    /\ IdleOutsideView

\* the sorted-set service answers one rangeByIndex / rangeByScore call: with
\* what rangeBy makes of the set, or with the failure of a backend call
rangeBySettles ==
    /\ viewCall.pc # "none"
    /\ \E i \in 1..Len(viewCall.sset) :
          /\ viewCall.sset[i].state = "pending"
          /\ LET call   == viewCall.sset[i]
                 answer == rangeByAnswer(redis, call)
             IN  \/ /\ answer.state = "ok"
                    /\ viewCall' = [viewCall EXCEPT !.sset[i] =
                                      [by |-> call.by, db |-> call.db, id |-> call.id,
                                       query |-> call.query, state |-> "ok",
                                       result |-> answer.result]]
                 \/ \E e \in (IF answer.state = "ok" THEN ServiceErrors
                              ELSE ServiceErrors \cup {answer.error}) :
                       viewCall' = [viewCall EXCEPT !.sset[i] =
                                      [by |-> call.by, db |-> call.db, id |-> call.id,
                                       query |-> call.query, state |-> "failed",
                                       error |-> e]]
    /\ IdleOutsideView

\* the end of a case of the switch: try { ... return response } catch (e) { ... }
Returns(v, response) ==
    [v EXCEPT !.pc = "done", !.promise = Resolved(response),
              !.ticks = IF v.callback THEN Append(@, [err |-> NoError, data |-> response])
                        ELSE @]

\* a failed query handed to the native view instead
CatchesFallsBack(v, e, reason) == CallsCouchView(v)

Catches(v, e, reason) ==
    IF v.callback
    THEN [v EXCEPT !.pc = "done", !.promise = Resolved([kind |-> "undefined"]),
                   !.ticks = Append(@, [err |-> requestError(e, reason),
                                        data |-> [kind |-> "empty_object"]])]
    ELSE [v EXCEPT !.pc = "done", !.promise = Rejected(requestError(e, reason))]

\* await Promise.all(promises) of processKeysQuery settles and view goes on
ResumeKeysQuery ==
    /\ viewCall.pc = "keys"
    /\ LET v == viewCall
           results == [i \in 1..Len(v.sset) |-> v.sset[i].result]
       IN  \/ \E i \in 1..Len(v.sset) :
                 /\ v.sset[i].state = "failed"
                 /\ viewCall' = Catches(v, v.sset[i].error, "keys_query_failed")
           \/ /\ \A i \in 1..Len(v.sset) : v.sset[i].state = "ok"
              /\ viewCall' =
                   IF KeysRowsThrow(results)
                   THEN Catches(v, RowUndefined, "keys_query_failed")
                   ELSE Returns(v, processKeysQueryResponse(v.params.keys.v, results))
    /\ IdleOutsideView

\* await sSetDB.rangeByScore(...) of processRangeQuery settles and view goes on
ResumeRangeQuery ==
    /\ viewCall.pc = "range"
    /\ LET v == viewCall
           call == v.sset[1]
       IN  /\ call.state # "pending"
           /\ viewCall' =
                IF call.state = "failed"
                THEN Catches(v, call.error, "range_query_failed")
                ELSE Returns(v, processRangeQueryResponse(
                                   OrElse(v.params.startkey, v.params.start_key).v,
                                   call.result))
    /\ IdleOutsideView

\* the native view answers; the promise view returned follows it
couchViewSettles ==
    /\ viewCall.pc = "couch"
    /\ \E p \in {Resolved(CouchResult), Rejected(CouchError)} :
          LET answered == [viewCall EXCEPT !.couchCalls[1].outcome = p]
          IN  viewCall' = [answered EXCEPT !.pc = "done",
                                           !.promise = answered.couchCalls[1].outcome]
    /\ IdleOutsideView

\* process.nextTick(() => callback(...))
nextTick ==
    /\ viewCall.pc # "none" /\ viewCall.ticks # <<>>
    /\ viewCall' = [viewCall EXCEPT !.ticks = Tail(@),
                                    !.callbacks = Append(@, Head(viewCall.ticks))]
    /\ IdleOutsideView

NextView ==
    \/ view \/ rangeBySettles \/ ResumeKeysQuery \/ ResumeRangeQuery
    \/ couchViewSettles \/ nextTick

SpecView == InitView /\ [][NextView]_vars

(***************************************************************************)
(* Claims about the view interceptor                                       *)
(***************************************************************************)
\* view has run up to its first await or its return
ViewActed == viewCall.pc \notin {"none", "idle"}

\* the Redis key of the set a service call reads
SetRead(call) == SSetRedisKey(call.db.s, [j \in 1..Len(call.id) |-> call.id[j].s])

\* params.keys is an array whose first element is an array beginning with "$SSET"
KeysParams(p) ==
    /\ p.kind = "object" /\ p.keys.has /\ Len(p.keys.v) >= 1
    /\ Len(p.keys.v[1]) >= 1 /\ p.keys.v[1][1] = Str(<<"$", "S", "S", "E", "T">>)

StartKeysOf(p) == {k.v : k \in {x \in {p.start_key, p.startkey} : x.has}}
EndKeysOf(p)   == {k.v : k \in {x \in {p.end_key, p.endkey} : x.has}}

\* both keys begin with "$SSET", have the same length, end with a number and
\* agree on every element before the last
RangePair(sk, ek) ==
    /\ Len(sk) >= 1 /\ Len(ek) >= 1
    /\ sk[1] = Str(<<"$", "S", "S", "E", "T">>) /\ ek[1] = Str(<<"$", "S", "S", "E", "T">>)
    /\ Len(sk) = Len(ek)
    /\ sk[Len(sk)].t = "number" /\ ek[Len(ek)].t = "number"
    /\ \A i \in 1..(Len(sk) - 1) : sk[i] = ek[i]

\* C18: a view call with one start key and one end key (under either spelling)
\* that both begin with "$SSET", have equal length, numeric last elements and
\* equal elements before the last is a range query: the native view is not
\* called, and exactly one score-range lookup is issued, on the set named by
\* the common prefix, with min = the last element of the start key and
\* max = the last element of the end key.
C18_RangeQueryClassified ==
    ViewActed /\ viewCall.params.kind = "object" =>
        \A sk \in StartKeysOf(viewCall.params), ek \in EndKeysOf(viewCall.params) :
            ( /\ StartKeysOf(viewCall.params) = {sk} /\ EndKeysOf(viewCall.params) = {ek}
              /\ RangePair(sk, ek) ) =>
                /\ viewCall.type = "range"
                /\ viewCall.couchCalls = <<>>
                /\ Len(viewCall.sset) = 1
                /\ viewCall.sset[1].by = "SCORE"
                /\ SetRead(viewCall.sset[1]) =
                     <<"{", "S", "S", "E", "T", ":">> \o sk[2].s \o <<"}", "/">>
                     \o Join([j \in 1..(Len(sk) - 3) |-> encodeURIComponent(sk[j + 2].s)],
                             <<":">>)
                /\ viewCall.sset[1].query.min = sk[Len(sk)]
                /\ viewCall.sset[1].query.max = ek[Len(ek)]

\* the same, for calls on the copy that follows the service in sset.redis.ts
\* and that give no keys parameter
RangeQueryClassifiedBySecondCopy ==
    (viewCall.pc # "none" /\ viewCall.copy = CopyRedis /\ ~viewCall.params.keys.has)
        => C18_RangeQueryClassified

\* neither a keys query nor a range query, by the rules of classification
NotClassified(p) ==
    /\ ~KeysParams(p)
    /\ p.kind = "object" =>
          \A sk \in StartKeysOf(p), ek \in EndKeysOf(p) : ~RangePair(sk, ek)

\* C19: a view call that is neither a keys query nor a range query is handed
\* to the native view exactly once, with the params and the callback of the
\* call; the promise of the call settles as the native view's promise does;
\* the sorted-set service is not called and the interceptor itself never
\* invokes the callback.
C19_OtherCallsDelegated ==
    (ViewActed /\ NotClassified(viewCall.params)) =>
        /\ Len(viewCall.couchCalls) = 1
        /\ viewCall.couchCalls[1].params = viewCall.params
        /\ viewCall.couchCalls[1].callback = viewCall.callback
        /\ viewCall.sset = <<>>
        /\ viewCall.ticks = <<>> /\ viewCall.callbacks = <<>>
        /\ viewCall.promise = viewCall.couchCalls[1].outcome

\* the same, for calls on the copy that follows the service in sset.redis.ts
OtherCallsDelegatedBySecondCopy ==
    (viewCall.pc # "none" /\ viewCall.copy = CopyRedis) => C19_OtherCallsDelegated

\* the error a failed query of the given type is answered with
QueryFailed(e, type) ==
    /\ e.name = "supercouch_error"
    /\ e.statusCode = 500
    /\ e.reason = (IF type = "keys" THEN "keys_query_failed" ELSE "range_query_failed")

\* C20: a keys or range query never reaches the native view; when a lookup of
\* the sorted-set service failed, the view call ends with an error named
\* "supercouch_error" with statusCode 500 and the reason of its query type:
\* without callback the promise rejects with it, with a callback the callback
\* is invoked once with it.
C20_ServiceFailureSurfaced ==
    (ViewActed /\ viewCall.type \in {"keys", "range"}) =>
        /\ viewCall.couchCalls = <<>>
        /\ (viewCall.pc = "done" /\ \E i \in 1..Len(viewCall.sset) :
                                       viewCall.sset[i].state = "failed") =>
              IF viewCall.callback
              THEN /\ Len(viewCall.ticks \o viewCall.callbacks) = 1
                   /\ QueryFailed((viewCall.ticks \o viewCall.callbacks)[1].err, viewCall.type)
                   /\ viewCall.promise.state # "rejected"
              ELSE /\ viewCall.promise.state = "rejected"
                   /\ QueryFailed(viewCall.promise.value, viewCall.type)
                   /\ viewCall.ticks = <<>> /\ viewCall.callbacks = <<>>

C20_Witness ==
    /\ viewCall.pc = "done" /\ viewCall.type = "range" /\ viewCall.callback
    /\ viewCall.sset[1].state = "failed"
    /\ viewCall.ticks = <<>> /\ Len(viewCall.callbacks) = 1
    /\ viewCall.callbacks[1].err.reason = "range_query_failed"

(***************************************************************************)
(* Claims about rangeByIndex and rangeByScore                              *)
(***************************************************************************)
\* the call returned a response
RangeAnswered == rangeCall.pc = "done" /\ rangeCall.promise.state = "resolved"

RangeResponse == rangeCall.promise.value

\* the set the call reads, as it is stored
RangeSet == ZGet(redis, SSetRedisKey(<<"A">>, <<<<"x">>>>))

\* C24: in every range response, paging.total is -1 when the query's
\* includeTotal is false or absent, and paging.count is -1 when the query has
\* neither offset nor count.
C24_PagingDefaults ==
    RangeAnswered =>
        /\ rangeCall.query.includeTotal # "true" => RangeResponse.paging.total = 0 - 1
        /\ (~rangeCall.query.offset.has /\ ~rangeCall.query.count.has)
              => RangeResponse.paging.count = 0 - 1

\* the part of C24 about paging.count, and about paging.total of paged queries
PagingDefaultsWhenPaged ==
    RangeAnswered =>
        /\ (rangeCall.query.includeTotal # "true" /\ hasOffsetOrCount(rangeCall.query))
              => RangeResponse.paging.total = 0 - 1
        /\ (~rangeCall.query.offset.has /\ ~rangeCall.query.count.has)
              => RangeResponse.paging.count = 0 - 1

\* C25: for rangeByScore with includeTotal true, paging.total is the number
\* of stored entries whose score lies in [min, max], whatever offset, count
\* and order are.
C25_TotalCountsTheRange ==
    (RangeAnswered /\ rangeCall.by = "SCORE" /\ rangeCall.query.includeTotal = "true") =>
        RangeResponse.paging.total =
            Cardinality({e \in RangeSet : /\ rangeCall.query.min <= e.score
                                          /\ e.score <= rangeCall.query.max})

C25_Witness ==
    /\ RangeAnswered /\ rangeCall.by = "SCORE" /\ rangeCall.query.includeTotal = "true"
    /\ rangeCall.query.order = "desc" /\ rangeCall.query.offset = Some(1)
    /\ rangeCall.query.count = Some(1)
    /\ Len(RangeResponse.rows) = 1 /\ RangeResponse.paging.total = 2
    /\ Cardinality(RangeSet) = 3

\* the response to the query of the call with order 'asc' and no paging
AscUnpaged ==
    LET q == [rangeCall.query EXCEPT !.order = "asc", !.offset = NoNum, !.count = NoNum]
        values == zRange(RangeSet, "SCORE", q)
    IN  rangeByResponse(q, values, 0 - 1)

\* the response to the query of the call with order 'asc' and the same paging
AscPaged ==
    LET q == [rangeCall.query EXCEPT !.order = "asc"]
        values == zRange(RangeSet, "SCORE", q)
    IN  rangeByResponse(q, values,
                        IF needZCount(q) THEN ZCount(RangeSet, q.min, q.max) ELSE 0 - 1)

\* rows first .. first + count - 1 of a sequence, first counted from 0
Window(sq, first, count) ==
    [i \in 1..(IF Len(sq) - first < 0 THEN 0
               ELSE IF Len(sq) - first < count THEN Len(sq) - first ELSE count)
        |-> sq[first + i]]

\* C26: a rangeByScore query with order 'desc' returns the rows of the same
\* query with order 'asc' and no paging in reverse order, or, with offset and
\* count given, rows offset .. offset + count - 1 of that reversed sequence;
\* paging.offset, paging.count and paging.total are those of order 'asc'.
C26_DescReversesAsc ==
    (RangeAnswered /\ rangeCall.by = "SCORE" /\ rangeCall.query.order = "desc") =>
        /\ ~hasOffsetOrCount(rangeCall.query)
              => RangeResponse.rows = Reverse(AscUnpaged.rows)
        /\ (rangeCall.query.offset.has /\ rangeCall.query.count.has)
              => RangeResponse.rows = Window(Reverse(AscUnpaged.rows),
                                             rangeCall.query.offset.v, rangeCall.query.count.v)
        /\ RangeResponse.paging = AscPaged.paging

C26_Witness ==
    /\ RangeAnswered /\ rangeCall.by = "SCORE" /\ rangeCall.query.order = "desc"
    /\ rangeCall.query.offset = Some(0) /\ rangeCall.query.count = Some(1)
    /\ rangeCall.query.includeScores = "true"
    /\ Len(AscUnpaged.rows) = 3
    /\ AscUnpaged.rows[2].score = AscUnpaged.rows[3].score
    /\ RangeResponse.rows = <<AscUnpaged.rows[3]>>
    /\ RangeResponse.rows # AscPaged.rows

\* the entry with the largest score, the greatest encoded value among equals
Highest(z) ==
    CHOOSE e \in z : \A f \in z \ {e} :
        \/ f.score < e.score
        \/ f.score = e.score /\ LexLess(f.member, e.member)

\* C27: rangeByIndex with min = max = -1 returns no row when the set is empty
\* or missing and otherwise exactly one row, the value (and, when asked for,
\* the score) of the entry with the largest score, the greatest encoded value
\* among entries of that score; rangeByIndex with min = 0, max = -1 and
\* includeTotal on an empty set returns no row and total 0.
C27_LastByIndex ==
    (RangeAnswered /\ rangeCall.by = "INDEX") =>
        /\ (rangeCall.query.min = 0 - 1 /\ rangeCall.query.max = 0 - 1) =>
              IF RangeSet = {} THEN RangeResponse.rows = <<>>
              ELSE /\ Len(RangeResponse.rows) = 1
                   /\ JSONstringify(RangeResponse.rows[1].value) = Highest(RangeSet).member
                   /\ rangeCall.query.includeScores = "true"
                         => RangeResponse.rows[1].score = Highest(RangeSet).score
        /\ ( /\ rangeCall.query.min = 0 /\ rangeCall.query.max = 0 - 1
             /\ rangeCall.query.includeTotal = "true" /\ RangeSet = {} ) =>
              /\ RangeResponse.rows = <<>>
              /\ RangeResponse.paging.total = 0

C27_Witness ==
    /\ RangeAnswered /\ rangeCall.by = "INDEX"
    /\ rangeCall.query.min = 0 - 1 /\ rangeCall.query.max = 0 - 1
    /\ rangeCall.query.includeScores = "true"
    /\ Cardinality(RangeSet) = 3
    /\ Cardinality({e \in RangeSet : e.score = Highest(RangeSet).score}) = 2
    /\ RangeResponse.rows = <<[value |-> <<"a">>, score |-> MaxScore]>>

\* C28: a rangeByScore call with min > max returns a response with no rows,
\* and with total 0 when includeTotal is set, for either order and with or
\* without paging; it rejects only when a backend call failed.
C28_EmptyWhenMinAboveMax ==
    ( /\ rangeCall.pc = "done" /\ rangeCall.by = "SCORE"
      /\ rangeCall.query.min > rangeCall.query.max ) =>
        /\ rangeCall.promise.state = "rejected" =>
              /\ rangeCall.promise.value \in RedisErrors
              /\ \/ rangeCall.zRange = ReplyError(rangeCall.promise.value)
                 \/ rangeCall.zCount = ReplyError(rangeCall.promise.value)
        /\ rangeCall.promise.state = "resolved" =>
              /\ RangeResponse.rows = <<>>
              /\ rangeCall.query.includeTotal = "true" => RangeResponse.paging.total = 0

C28_Witness ==
    /\ RangeAnswered /\ rangeCall.by = "SCORE"
    /\ rangeCall.query.min = MaxScore /\ rangeCall.query.max = 1
    /\ rangeCall.query.order = "desc" /\ rangeCall.query.includeTotal = "true"
    /\ rangeCall.query.offset = Some(0)
    /\ \E e, f \in RangeSet : e.score = 1 /\ f.score = MaxScore
    /\ RangeResponse.rows = <<>> /\ RangeResponse.paging.total = 0

\* the view call ended with a response (handed to the callback as well, when
\* there is one)
ViewSucceeded ==
    /\ viewCall.pc = "done" /\ viewCall.promise.state = "resolved"
    /\ "rows" \in DOMAIN viewCall.promise.value
    /\ viewCall.callback =>
          /\ Len(viewCall.ticks \o viewCall.callbacks) = 1
          /\ (viewCall.ticks \o viewCall.callbacks)[1] =
                [err |-> NoError, data |-> viewCall.promise.value]

ViewResponse == viewCall.promise.value

\* every lookup of a keys query was answered by the service
KeysAnswered ==
    /\ viewCall.pc = "done" /\ viewCall.type = "keys"
    /\ \A i \in 1..Len(viewCall.sset) : viewCall.sset[i].state = "ok"

\* C21: a keys query all of whose lookups were answered succeeds with one row
\* per requested key, row i carrying key i; the row of a key whose set is
\* empty or missing has no value and no score.
C21_EmptySetYieldsRow ==
    KeysAnswered =>
        /\ ViewSucceeded
        /\ Len(ViewResponse.rows) = Len(viewCall.params.keys.v)
        /\ \A i \in 1..Len(viewCall.params.keys.v) :
              /\ ViewResponse.rows[i].key = JoinKey(viewCall.params.keys.v[i])
              /\ SetOfCall(redis, viewCall.sset[i]) = {} =>
                    DOMAIN ViewResponse.rows[i] = {"id", "key"}

\* the same for keys queries none of whose sets is empty
KeysQuerySucceedsOnStoredSets ==
    (KeysAnswered /\ \A i \in 1..Len(viewCall.sset) :
                        SetOfCall(redis, viewCall.sset[i]) # {})
        => C21_EmptySetYieldsRow

\* the sorted set a key of a keys query names: ["$SSET", database, ...id path]
SetOfKey(key) ==
    ZGet(redis, SSetRedisKey(key[2].s, [j \in 1..(Len(key) - 2) |-> key[j + 2].s]))

\* C22: a keys query that succeeds over keys k1..kn returns offset 0,
\* total_rows n and n rows; row i has id "#SSET", the elements of ki joined by
\* commas as key, and the value of the highest-ranked entry of the set of ki,
\* with its score unless include_scores is false; the order in which the
\* lookups were answered does not matter.
C22_KeysQueryResponse ==
    (ViewSucceeded /\ viewCall.type = "keys") =>
        LET keys == viewCall.params.keys.v IN
        /\ ViewResponse.offset = 0
        /\ ViewResponse.total_rows = Len(keys)
        /\ Len(ViewResponse.rows) = Len(keys)
        /\ \A i \in 1..Len(keys) :
              /\ ViewResponse.rows[i].id = <<"#", "S", "S", "E", "T">>
              /\ ViewResponse.rows[i].key =
                    Join([j \in 1..Len(keys[i]) |-> keys[i][j].s], <<",">>)
              /\ SetOfKey(keys[i]) # {}
              /\ JSONstringify(ViewResponse.rows[i].value) = Highest(SetOfKey(keys[i])).member
              /\ ViewResponse.rows[i].score =
                    IF viewCall.params.include_scores = "false" THEN NoScore
                    ELSE Highest(SetOfKey(keys[i])).score

C22_Witness ==
    /\ ViewSucceeded /\ viewCall.type = "keys" /\ viewCall.callback
    /\ Len(viewCall.params.keys.v) = 2
    /\ viewCall.params.keys.v[1][2] # viewCall.params.keys.v[2][2]
    /\ ViewResponse.rows[1].value = <<"b">> /\ ViewResponse.rows[1].score = MaxScore
    /\ ViewResponse.rows[2].value = <<"b">> /\ ViewResponse.rows[2].score = 1
    /\ Len(viewCall.callbacks) = 1

\* C23: a range query issues one rangeByScore call with offset = skip,
\* count = limit, order 'desc' when descending is true and 'asc' otherwise,
\* includeTotal = include_total_rows and includeScores = include_scores, both
\* true when not given; the offset and total_rows of the view response are
\* paging.offset and paging.total of the service's response.
C23_RangeParamsForwarded ==
    (ViewActed /\ viewCall.type = "range") =>
        LET p == viewCall.params
            q == viewCall.sset[1].query
        IN  /\ Len(viewCall.sset) = 1 /\ viewCall.sset[1].by = "SCORE"
            /\ q.offset = p.skip /\ q.count = p.limit
            /\ q.order = (IF p.descending = "true" THEN "desc" ELSE "asc")
            /\ q.includeTotal = (IF p.include_total_rows = "false" THEN "false" ELSE "true")
            /\ q.includeScores = (IF p.include_scores = "false" THEN "false" ELSE "true")
            /\ ViewSucceeded =>
                  /\ ViewResponse.offset = viewCall.sset[1].result.paging.offset
                  /\ ViewResponse.total_rows = viewCall.sset[1].result.paging.total

\* the same, for calls on the copy that follows the service in sset.redis.ts
RangeParamsForwardedBySecondCopy ==
    (viewCall.pc # "none" /\ viewCall.copy = CopyRedis) => C23_RangeParamsForwarded

(***************************************************************************)
(* SSetRedis.key on its own: two sorted sets are addressed, an operation   *)
(* is processed for the first and the second is read                       *)
(***************************************************************************)
MaxPath == 2   \* segments in an id-path

\* id segments: empty, plain, the separator, its percent-encoding, and the
\* characters that frame the database in the key
KeySegments == {<<>>, <<"a">>, <<":">>, <<"%", "3", "A">>, <<"{", "}", "/">>}

RECURSIVE KeyPaths(_)
KeyPaths(n) ==
    IF n = 0 THEN {<<>>}
    ELSE KeyPaths(n - 1) \cup
         {Append(p, g) : p \in {q \in KeyPaths(n - 1) : Len(q) = n - 1}, g \in KeySegments}

\* database names, taken as they are into the key
KeyDbs == {<<"A">>, <<"A", "}", "/", "a">>, <<"{", "A", ":">>}

KeyInputs == [db : KeyDbs, id : KeyPaths(MaxPath)]

InitKey ==
    /\ \E a \in KeyInputs, b \in KeyInputs :
          keyCall = [pc |-> "idle", a |-> a, b |-> b, ka |-> <<>>, kb |-> <<>>,
                     threw |-> FALSE, seen |-> {}]
    /\ InitSvc /\ InitIdlePerm /\ InitIdleEngine
    /\ viewCall = NoViewCall /\ rangeCall = NoRangeCall

IdleOutsideKey == UNCHANGED <<txs, calls, submitted, batch, permVars, engVars, viewCall, rangeCall>>

\* SSetRedis.key(db, key) for both sets
formatsKeys ==
    /\ keyCall.pc = "idle"
    /\ keyCall' = [keyCall EXCEPT !.pc = "keyed",
                                  !.ka = SSetRedisKey(keyCall.a.db, keyCall.a.id),
                                  !.kb = SSetRedisKey(keyCall.b.db, keyCall.b.id)]
    /\ UNCHANGED redis
    /\ IdleOutsideKey

\* process([op]) with an operation for the first set, then a read of the
\* whole second set (zRange on its key)
writesThenReads ==
    /\ keyCall.pc = "keyed"
    /\ LET op == [db |-> keyCall.a.db, id |-> keyCall.a.id, keep |-> "ALL_VALUES",
                  score |-> 1, value |-> <<"a">>]
           r  == IF InvalidOp(op) THEN redis ELSE ApplyCmds(redis, OpCmds(op))
       IN  /\ redis' = r
           /\ keyCall' = [keyCall EXCEPT !.pc = "done", !.threw = InvalidOp(op),
                                         !.seen = ZGet(r, keyCall.kb)]
    /\ IdleOutsideKey

NextKey == formatsKeys \/ writesThenReads

SpecKey == InitKey /\ [][NextKey]_vars

\* C29: two (database, id-path) pairs that differ never get the same backend
\* key, also with ':', '/', '{', '}' and '%' in the database or the segments;
\* what is written to one sorted set is not read through another.
C29_KeyInjective ==
    (keyCall.pc \in {"keyed", "done"} /\ keyCall.a # keyCall.b) =>
        /\ keyCall.ka # keyCall.kb
        /\ keyCall.pc = "done" => keyCall.seen = {}

\* the same for id-paths of at least one segment, the ones process() accepts
KeyInjectiveOnSegments ==
    (keyCall.pc \in {"keyed", "done"} /\ keyCall.a # keyCall.b
       /\ keyCall.a.id # <<>> /\ keyCall.b.id # <<>>) =>
        /\ keyCall.ka # keyCall.kb
        /\ keyCall.pc = "done" => keyCall.seen = {}

(***************************************************************************)
(* Claims about log() in map functions                                     *)
(***************************************************************************)
\* the log() calls the map functions of request h have made: run and position
Logged(h) ==
    UNION {{<<k, i>> : i \in 1..Len(handlers[h].runs[k].beh.logs)} :
             k \in 1..Len(handlers[h].runs)}

\* the positions on standard output of the ["log", str] lines of request h
LogLines(h) == {q \in 1..Len(stdout) : stdout[q].req = h /\ stdout[q].body.t = "log"}

\* C30: every log(str) call a map function makes while a document is mapped
\* writes one line ["log", str] on standard output, before the response
\* line of that map_doc request.
C30_LogLinesWritten ==
    \A h \in Requests :
        handlers[h].cmd = "map_doc" =>
            /\ Cardinality(LogLines(h)) = Cardinality(Logged(h))
            /\ \A ki \in Logged(h) :
                  \E q \in LogLines(h) :
                     stdout[q].body = RLog(handlers[h].runs[ki[1]].beh.logs[ki[2]])
            /\ \A q \in LogLines(h), p \in Responses(h) : q < p

\* what holds instead: a map_doc request puts nothing but its response line
\* on standard output, whatever its map functions log
OnlyResponseLines ==
    \A q \in 1..Len(stdout) : stdout[q].body.t # "log"

(***************************************************************************)
(* One batch handed to process(), as mapDoc does for the operations of one *)
(* run of a map function, and its transactions settled in any order        *)
(***************************************************************************)
MaxBatch == 3   \* operations one run of a map function emits

OrderOps ==
    [db : DBs, id : {<<<<"x">>>>}, keep : {"ALL_VALUES", "LAST_VALUE"},
     score : Scores, value : {<<"a">>, <<"b">>}]

InitOrder ==
    /\ batch \in Batches(OrderOps, MaxBatch)
    /\ redis = NoRedis /\ txs = {} /\ calls = (Client :> NoCall) /\ submitted = {}
    /\ InitIdlePerm /\ InitIdleEngine /\ InitIdleView

\* sSetDB.process(ops) with the operations in the order they were emitted
OrderProcess ==
    /\ calls[Client].n = 0
    /\ calls' = [calls EXCEPT ![Client] = NewCall(@, batch)]
    /\ txs' = NewTxs(Client, 1, batch)
    /\ UNCHANGED <<redis, submitted, batch, permVars, viewVars, engVars>>

NextOrder == OrderProcess \/ SvcTxCommit \/ SvcTxFail
SpecOrder == InitOrder /\ [][NextOrder]_vars

\* the add of each operation, then its trim, operation after operation
InEmitOrder(ops) == ApplyCmds(NoRedis, Concat([i \in 1..Len(ops) |-> OpCmds(ops[i])]))

BatchCommitted == calls[Client].n = 1 /\ txs = {} /\ CallResolved(calls[Client])

\* C31: once the batch of one document is committed, the sorted sets hold
\* what the commands leave when they take effect in emit order: for each
\* operation its add, then (LAST_VALUE) its trim, before any command of the
\* next operation.
C31_CommandsInEmitOrder == BatchCommitted => redis = InEmitOrder(batch)

\* the same for a batch addressed to one database
OneDatabaseInEmitOrder ==
    (BatchCommitted /\ \A i, j \in 1..Len(batch) : batch[i].db = batch[j].db) =>
        redis = InEmitOrder(batch)

(***************************************************************************)
(* Claims about the sequencing of request lines                            *)
(***************************************************************************)
\* request h has run a map function, or changed the registered functions
Started(h) ==
    \/ handlers[h].cmd \in {"add_fun", "reset"}
    \/ handlers[h].cmd = "map_doc" /\ handlers[h].runs # <<>>

\* nothing more will be done for request g
Finished(g) == Responses(g) # {} \/ handlers[g].pc \in {"done", "rejected"}

\* C32: request lines are processed one at a time: no request has run a map
\* function, changed the registered functions or issued a backend write
\* before the response to the request before it was written.
C32_OneRequestAtATime ==
    \A g, h \in Requests : (g < h /\ Started(h)) => Finished(g)

\* the number of map functions registered when the line of request h arrived
RegisteredAt(h) == Cardinality(SinceReset(h))

\* C33: the response to a map_doc request holds exactly one emission list
\* per map function registered when its line was received; add_fun and reset
\* lines that arrive while its backend write is pending add no list to it
\* and remove none from it.
C33_ListsOfRegisteredAtArrival ==
    \A h \in Answered : Len(ResponseOf(h).lists) = RegisteredAt(h)

\* no list is missing from the response, whatever arrives meanwhile
NoListRemoved ==
    \A h \in Answered : Len(ResponseOf(h).lists) >= RegisteredAt(h)

\* C34: every request line that is not blank gets exactly one response line,
\* also a line of valid JSON that is an empty array or no array at all.
C34_EveryLineAnswered ==
    \A h \in Requests :
        handlers[h].cmd # "blank" =>
            /\ Cardinality(Responses(h)) <= 1
            /\ handlers[h].pc \in {"done", "rejected"} => Cardinality(Responses(h)) = 1

\* the same for the lines whose JSON has a length and whose handler was not
\* ended by a rejection
LinesWithCommandAnswered ==
    \A h \in Requests :
        handlers[h].cmd \notin {"blank", "nolength"} =>
            /\ Cardinality(Responses(h)) <= 1
            /\ handlers[h].pc = "done" => Cardinality(Responses(h)) = 1

\* C35: process(ops) settles only when every transaction it started has
\* settled: once the response line of a map_doc request is written, be it an
\* emission list or processing_failed, no transaction started for that
\* document is pending.
C35_SettlesAfterEveryTransaction ==
    \A h \in Requests :
        (handlers[h].cmd = "map_doc" /\ Responses(h) # {}) =>
            \A t \in txs : t.caller # h

(***************************************************************************)
(* Claims about rangeByIndex                                               *)
(***************************************************************************)
\* the ranks (from 0) of the entries of z that lie in [min, max], negative
\* bounds counted from the end
RanksIn(z, min, max) ==
    LET n  == Cardinality(z)
        lo == IF min < 0 THEN n + min ELSE min
        hi == IF max < 0 THEN n + max ELSE max
    IN  {r \in 0..(n - 1) : lo <= r /\ r <= hi}

\* a reply was lost to a failure of the connection
TransportFailed ==
    \/ rangeCall.zRange.state = "failed" /\ rangeCall.zRange.error \in RedisErrors
    \/ rangeCall.zCount.state = "failed" /\ rangeCall.zCount.error \in RedisErrors

IndexCallWithTotal ==
    /\ rangeCall.pc = "done" /\ rangeCall.by = "INDEX"
    /\ rangeCall.query.includeTotal = "true" /\ ~TransportFailed

\* C36: rangeByIndex with includeTotal true answers with paging.total equal
\* to the number of entries whose rank lies in [min, max], negative indices
\* counted from the end, with and without offset / count.
C36_IndexTotalCountsRanks ==
    IndexCallWithTotal =>
        /\ RangeAnswered
        /\ RangeResponse.paging.total =
              Cardinality(RanksIn(RangeSet, rangeCall.query.min, rangeCall.query.max))

\* the same for queries without offset and count
IndexTotalWithoutPaging ==
    (IndexCallWithTotal /\ ~hasOffsetOrCount(rangeCall.query)) =>
        /\ RangeAnswered
        /\ RangeResponse.paging.total =
              Cardinality(RanksIn(RangeSet, rangeCall.query.min, rangeCall.query.max))

\* the response of rangeByIndex to the query of the call with order 'asc'
AscByIndex ==
    LET q == [rangeCall.query EXCEPT !.order = "asc"]
    IN  rangeByResponse(q, zRange(RangeSet, "INDEX", q), 0 - 1)

\* C37: a rangeByIndex query with order 'desc' returns the rows of the same
\* query with order 'asc' in reverse order.
C37_IndexDescReversesAsc ==
    (RangeAnswered /\ rangeCall.by = "INDEX" /\ rangeCall.query.order = "desc") =>
        RangeResponse.rows = Reverse(AscByIndex.rows)

\* what rangeByIndex does with order 'desc': the rows of order 'asc', as they are
IndexOrderIgnored ==
    (RangeAnswered /\ rangeCall.by = "INDEX" /\ rangeCall.query.order = "desc") =>
        RangeResponse.rows = AscByIndex.rows

(***************************************************************************)
(* Claims about emit()                                                     *)
(***************************************************************************)
\* the record of one emit(key, value) call: null for a null key, the
\* one-element array of a string or number key, an array key as it is
Normalized(c) == [null |-> c.key.t = "null", elems |-> c.key.v, value |-> c.value]

\* a run whose keys are null, strings, numbers or arrays, none of them a
\* $SSET key
PlainRun(beh) ==
    \A i \in 1..Len(beh.emits) :
        /\ beh.emits[i].key.t \in {"null", "str", "num", "arr"}
        /\ ~(beh.emits[i].key.t = "arr" /\ Len(beh.emits[i].key.v) > 0
               /\ beh.emits[i].key.v[1] = SSET_KEY[1])

\* C38: every emit(key, value) call appends exactly one record to the buffer
\* (a null key as null, a string or number key as a one-element array, an
\* array key as it is, the empty array included): the list returned for a
\* function that emits no $SSET keys holds one row per emit call, in call
\* order.
C38_OneRecordPerEmit ==
    \A h \in Answered :
        \A k \in 1..Len(handlers[h].runs) :
            (PlainRun(handlers[h].runs[k].beh) /\ handlers[h].runs[k].stale = <<>>) =>
                ResponseOf(h).lists[k] =
                    [i \in 1..Len(handlers[h].runs[k].beh.emits) |->
                        Normalized(handlers[h].runs[k].beh.emits[i])]

\* the same for runs that pass no empty array as key
OneRecordPerEmitWithKey ==
    \A h \in Answered :
        \A k \in 1..Len(handlers[h].runs) :
            (/\ PlainRun(handlers[h].runs[k].beh) /\ handlers[h].runs[k].stale = <<>>
             /\ \A i \in 1..Len(handlers[h].runs[k].beh.emits) :
                   handlers[h].runs[k].beh.emits[i].key # KeyArr(<<>>)) =>
                ResponseOf(h).lists[k] =
                    [i \in 1..Len(handlers[h].runs[k].beh.emits) |->
                        Normalized(handlers[h].runs[k].beh.emits[i])]

(***************************************************************************)
(* Claims about the sorted sets the interceptor addresses                  *)
(***************************************************************************)
\* the start key getQueryType and processRangeQuery look at
StartKeyUsed == OrElse(viewCall.params.start_key, viewCall.params.startkey).v

\* C39: every sorted-set call the interceptor issues names a database that
\* is a string and an id-path of at least one segment; a call whose start
\* and end keys have no id segment between the database and the score is
\* not taken as a range query.
C39_WellFormedSetAddressed ==
    ViewActed =>
        /\ \A i \in 1..Len(viewCall.sset) :
              viewCall.sset[i].db.t = "string" /\ viewCall.sset[i].id # <<>>
        /\ viewCall.type = "range" => Len(StartKeyUsed) >= 4

\* the id-path of a call is empty only when the key it was made for has no
\* id segment
IdPathAsGiven ==
    ViewActed =>
        /\ viewCall.type = "range" =>
              \A i \in 1..Len(viewCall.sset) :
                 viewCall.sset[i].id = <<>> <=> Len(StartKeyUsed) <= 3
        /\ viewCall.type = "keys" =>
              \A i \in 1..Len(viewCall.sset) :
                 viewCall.sset[i].id = <<>> <=> Len(viewCall.params.keys.v[i]) <= 2

\* "$SSET", the database and the id segments of a service call, joined by commas
KeyStringOf(call) ==
    Join(<<<<"$", "S", "S", "E", "T">>, call.db.s>> \o [j \in 1..Len(call.id) |-> call.id[j].s],
         <<",">>)

\* C40: the row key of a range query on a sorted set is the row key of a
\* keys query for that set: the comma-join of "$SSET", the database and the
\* segments of the id-path.
C40_SameRowKey ==
    ViewSucceeded =>
        /\ viewCall.type = "range" =>
              \A i \in 1..Len(ViewResponse.rows) :
                 ViewResponse.rows[i].key = KeyStringOf(viewCall.sset[1])
        /\ viewCall.type = "keys" =>
              \A i \in 1..Len(ViewResponse.rows) :
                 viewCall.params.keys.v[i][1] = Marker =>
                    ViewResponse.rows[i].key = KeyStringOf(viewCall.sset[i])

\* the row keys of keys queries alone, for the keys that begin with "$SSET"
KeysRowKey ==
    (ViewSucceeded /\ viewCall.type = "keys") =>
        \A i \in 1..Len(ViewResponse.rows) :
           viewCall.params.keys.v[i][1] = Marker =>
              ViewResponse.rows[i].key = KeyStringOf(viewCall.sset[i])

====
